---- MODULE Spec2Model ----
(***************************************************************************)
(* State-machine model of QuickSceneSwitcher.py (class SceneSwitcherUI).   *)
(*                                                                         *)
(* The 3ds Max host (pymxs runtime "rt") is modelled by the layer manager  *)
(* (a sequence of layers in LayerManager index order, position 1 being the *)
(* permanent default layer "0"), the scene objects with the layer each is  *)
(* on, the selection and the "save required" flag.  The disk is modelled   *)
(* by the content and the modification time of every scene file.           *)
(*                                                                         *)
(* Strings.  A layer name is a sequence of tokens: <<"Props">> is the      *)
(* string "Props" and <<"Props", "A">> is the string "Props (A)", so that  *)
(* appending the suffix " (A)" is Append and str.endswith(" (A)") looks at *)
(* the last token.  A path is <<directory, base name, extension>>.         *)
(***************************************************************************)
EXTENDS Integers, Sequences, FiniteSets, TLC

VARIABLES
    fileContent,        \* disk: path -> what the .max file holds
    fileMTime,          \* disk: path -> os.path.getmtime
    layers,             \* host: rt.LayerManager, sequence of layer records
    objects,            \* host: rt.objects, sequence of [name, layer]
    selection,          \* host: rt.selection, set of object positions
    clipboard,          \* host: global QSS_ClipboardNodes, set of object positions
    saveRequired,       \* host: rt.getSaveRequired()
    scene_list,         \* self.scene_list, sequence of list items
    active_scene_item,  \* self.active_scene_item: row (1-based), 0 is None
    file_timestamps,    \* self.file_timestamps: path -> mtime, NoTime if absent
    timerActive,        \* self.dirty_timer.isActive()
    pendingShots,       \* QTimer.singleShot callbacks not yet run
    is_ui_dirty,        \* self.is_ui_dirty
    disable_detection,  \* self.disable_detection_cb.isChecked()
    save_btn_marked,    \* "marked" in self.save_btn.text()
    background_check_counter, \* self.background_check_counter
    batch,              \* position inside action_batch_save's loops
    lastOp,             \* history: the handler that ran last and how it left
    savedTree,          \* history: the subtree the last successful save extracted
    merged,             \* history: the file list merge_all_scenes was given last
    sceneMaterials      \* host: rt.sceneMaterials, sequence of material records

vars == <<fileContent, fileMTime, layers, objects, selection, clipboard,
          saveRequired, scene_list, active_scene_item, file_timestamps,
          timerActive, pendingShots, is_ui_dirty, disable_detection,
          save_btn_marked, background_check_counter, batch, lastOp, savedTree,
          merged, sceneMaterials>>

\* The state as one record, so that a handler can call another handler.
State ==
    [fileContent |-> fileContent, fileMTime |-> fileMTime, layers |-> layers,
     objects |-> objects, selection |-> selection, clipboard |-> clipboard,
     saveRequired |-> saveRequired, scene_list |-> scene_list,
     active_scene_item |-> active_scene_item, file_timestamps |-> file_timestamps,
     timerActive |-> timerActive, pendingShots |-> pendingShots,
     is_ui_dirty |-> is_ui_dirty, disable_detection |-> disable_detection,
     save_btn_marked |-> save_btn_marked,
     background_check_counter |-> background_check_counter, batch |-> batch]

(***************************************************************************)
(* Bounds of the model.                                                    *)
(***************************************************************************)
MaxTime == 2        \* the clock value of the last write to a scene file
MaxShots == 1       \* a handler starts with fewer singleShot callbacks pending
MaxObjects == 4     \* Paste leaves the scene with at most as many objects
MaxSelected == 2    \* the user selects at most as many objects by hand

(***************************************************************************)
(* Strings and paths.                                                      *)
(***************************************************************************)
NoLayer == 0
NoTime == -1
NoParentName == <<>>
DefaultName == <<"0">>

\* os.path.splitext(os.path.basename(full_path))[0]
DisplayNameOf(path) == path[2]

\* f"{old_name}{suffix}" with suffix = f" ({display_name})"
Suffixed(name, display) == Append(name, display)

\* original_name.endswith(suffix)
EndsWithSuffix(name, display) == Len(name) >= 2 /\ name[Len(name)] = display

\* original_name[:-len(suffix)]
StripSuffix(name) == SubSeq(name, 1, Len(name) - 1)

PathA == <<"scenes", "A", "max">>
PathB == <<"scenes", "B", "max">>
Files == {PathA, PathB}

\* the time of the latest write to a scene file; a write happens later
Now(mtimes) == CHOOSE t \in {mtimes[f] : f \in Files} : \A f \in Files : mtimes[f] <= t

(***************************************************************************)
(* Scene host: layers.                                                     *)
(***************************************************************************)
LayerNames(L) == {L[i].name : i \in DOMAIN L}

\* rt.LayerManager.getLayerFromName(name): the layer or undefined
GetLayerFromName(L, name) ==
    IF \E i \in DOMAIN L : L[i].name = name
    THEN CHOOSE i \in DOMAIN L : L[i].name = name
    ELSE NoLayer

\* rt.LayerManager.newLayerFromName(name): appended, visible, not current
NewLayerFromName(L, name) ==
    Append(L, [name |-> name, parent |-> NoLayer, on |-> TRUE, current |-> FALSE])

\* getLayerFromName(name) or newLayerFromName(name)
GetOrNewLayer(L, name) ==
    IF GetLayerFromName(L, name) = NoLayer THEN NewLayerFromName(L, name) ELSE L

\* layer.setName(name): refused for the default layer and for a name in use
SetName(L, i, name) ==
    IF i = 1 \/ name \in LayerNames(L) THEN L ELSE [L EXCEPT ![i].name = name]

\* layer.setParent(p): the default layer cannot be reparented
SetParent(L, i, p) ==
    IF i = 1 THEN L ELSE [L EXCEPT ![i].parent = p]

\* layer.current = True: the host keeps exactly one current layer
SetCurrent(L, i) ==
    [j \in DOMAIN L |-> [L[j] EXCEPT !.current = (j = i)]]

\* layer.on = b
SetOn(L, i, b) == [L EXCEPT ![i].on = b]

\* layer.addNode(obj)
AddNode(O, o, i) == [O EXCEPT ![o].layer = i]

\* for obj in objs: layer.addNode(obj)
AddNodes(O, objs, i) ==
    [o \in DOMAIN O |-> IF o \in objs THEN [O[o] EXCEPT !.layer = i] ELSE O[o]]

(***************************************************************************)
(* Scene host: rt.mergeMaxFile(path, #mergeDups, #select).  A layer of the *)
(* file whose name is already in the scene is that scene layer; any other  *)
(* layer of the file is created with the parent it has in the file.  The   *)
(* merged objects are appended and become the selection.                   *)
(***************************************************************************)
RECURSIVE MergeCreateLayers(_, _, _)
MergeCreateLayers(L, fl, k) ==
    IF k > Len(fl) THEN L
    ELSE MergeCreateLayers(GetOrNewLayer(L, fl[k].name), fl, k + 1)

FileParentOf(fl, name) ==
    LET k == CHOOSE k \in DOMAIN fl : fl[k].name = name IN fl[k].parent

\* the layers the merge created take the parent they have in the file
MergeSetParents(L, L1, fl) ==
    [j \in DOMAIN L1 |->
        IF j <= Len(L) \/ FileParentOf(fl, L1[j].name) = NoParentName THEN L1[j]
        ELSE [L1[j] EXCEPT !.parent =
                 GetLayerFromName(L1, FileParentOf(fl, L1[j].name))]]

\* the objects of the file are appended and selected
MergeAddObjects(L2, O, objs) ==
    [layers |-> L2,
     objects |-> O \o [k \in 1..Len(objs) |->
                         [name |-> objs[k].name,
                          layer |-> GetLayerFromName(L2, objs[k].layer)]],
     selection |-> (Len(O) + 1)..(Len(O) + Len(objs))]

MergeMaxFile(L, O, content) ==
    MergeAddObjects(
        MergeSetParents(L, MergeCreateLayers(L, content.layers, 1), content.layers),
        O, content.objs)

(***************************************************************************)
(* import_single_scene, the host part (lines 821-920).                     *)
(***************************************************************************)
\* lines 879-886: the layers the merge introduced
NewLayersSet(L, existing, display) ==
    {i \in DOMAIN L :
        /\ L[i].name # DefaultName
        /\ L[i].name # <<display>>
        /\ L[i].name # Suffixed(DefaultName, display)
        /\ L[i].name \notin existing}

\* lines 888-902, one iteration
RenameNewLayer(L, i, newSet, root, display) ==
    LET L1 == SetName(L, i, Suffixed(L[i].name, display))
        parent == L1[i].parent
        is_nested == parent # NoLayer /\ parent \in newSet
    IN  IF is_nested THEN L1 ELSE SetParent(L1, i, root)

\* lines 888-902: "for layer in list(new_layers_set)"; a Python set has no
\* defined order, rev chooses between ascending and descending index order
RECURSIVE RenameNewLayers(_, _, _, _, _, _)
RenameNewLayers(L, todo, newSet, root, display, rev) ==
    IF todo = {} THEN L
    ELSE LET i == IF rev THEN CHOOSE x \in todo : \A y \in todo : y <= x
                  ELSE CHOOSE x \in todo : \A y \in todo : x <= y
         IN  RenameNewLayers(RenameNewLayer(L, i, newSet, root, display),
                             todo \ {i}, newSet, root, display, rev)

\* lines 904-916, one iteration for the pre-existing name layer_name
MoveOffExistingLayer(h, layer_name, root, display) ==
    LET objs_in_layer == {o \in h.selection :
                            h.layers[h.objects[o].layer].name = layer_name}
        unique_name == Suffixed(layer_name, display)
        found == GetLayerFromName(h.layers, unique_name)
        L1 == IF found # NoLayer THEN h.layers
              ELSE LET Ln == NewLayerFromName(h.layers, unique_name)
                   IN  SetParent(Ln, Len(Ln), root)
        unique_layer == GetLayerFromName(L1, unique_name)
    IN  IF layer_name = DefaultName \/ objs_in_layer = {} THEN h
        ELSE [h EXCEPT !.layers = L1,
                       !.objects = AddNodes(h.objects, objs_in_layer, unique_layer)]

\* lines 904-916: "for layer_name in existing_layer_names", the names taken
\* in the order of the layers that carried them before the merge
RECURSIVE MoveOffExistingLayers(_, _, _, _, _)
MoveOffExistingLayers(h, names, k, root, display) ==
    IF k > Len(names) THEN h
    ELSE MoveOffExistingLayers(MoveOffExistingLayer(h, names[k], root, display),
                               names, k + 1, root, display)

\* lines 821-826: find or create the root layer and make it current
ImportRoot(L, display) ==
    LET L1 == GetOrNewLayer(L, <<display>>)
    IN  SetCurrent(L1, GetLayerFromName(L1, <<display>>))

\* import_single_scene without the move of lines 861-870
ImportLayer0Skip(m, root, display) == m
\* lines 861-870: the merged objects on layer "0" go to "0 (<display>)"
ImportLayer0(m, root, display) ==
    LET objs_on_layer_0 == {o \in m.selection :
                              m.layers[m.objects[o].layer].name = DefaultName}
        layer0_name == Suffixed(DefaultName, display)
        Lg == GetOrNewLayer(m.layers, layer0_name)
    IN  IF objs_on_layer_0 = {} THEN m
        ELSE [m EXCEPT
                 !.layers = SetParent(Lg, GetLayerFromName(Lg, layer0_name), root),
                 !.objects = AddNodes(m.objects, objs_on_layer_0,
                                      GetLayerFromName(Lg, layer0_name))]

\* lines 872-902
ImportRename(h, existing_layer_names, root, display, rev) ==
    LET new_layers_set == NewLayersSet(h.layers, existing_layer_names, display)
    IN  [h EXCEPT !.layers = RenameNewLayers(h.layers, new_layers_set,
                                             new_layers_set, root, display, rev)]

\* lines 918-920
ImportVisibility(h, root, index, is_reload) ==
    IF is_reload THEN h ELSE [h EXCEPT !.layers = SetOn(h.layers, root, index = 0)]

\* lines 828-920 after the root layer is current
ImportMerged(L, O, content, display, index, is_reload, rev) ==
    ImportVisibility(
        MoveOffExistingLayers(
            ImportRename(
                ImportLayer0(MergeMaxFile(L, O, content),
                             GetLayerFromName(L, <<display>>), display),
                LayerNames(L), GetLayerFromName(L, <<display>>), display, rev),
            [i \in DOMAIN L |-> L[i].name], 1,
            GetLayerFromName(L, <<display>>), display),
        GetLayerFromName(L, <<display>>), index, is_reload)

(***************************************************************************)
(* Layer tree traversal (get_children / collect_*_recursive, lines 513-526 *)
(* and 1349-1363): children are found by comparing each cached layer's     *)
(* parent name with the parent's name, in LayerManager index order.        *)
(***************************************************************************)
RECURSIVE SortedSeq(_)
SortedSeq(S) ==
    IF S = {} THEN <<>>
    ELSE LET m == CHOOSE x \in S : \A y \in S : x <= y
         IN  <<m>> \o SortedSeq(S \ {m})

SeqRange(s) == {s[k] : k \in DOMAIN s}

\* get_children(parent_name) / get_children_from_cache(parent_name)
GetChildren(L, i) ==
    SortedSeq({j \in DOMAIN L :
                 /\ L[j].parent # NoLayer
                 /\ L[L[j].parent].name = L[i].name})

\* collect_descendants_recursive over a list of siblings (depth first)
RECURSIVE CollectDescendants(_, _)
CollectDescendants(L, kids) ==
    IF kids = <<>> THEN <<>>
    ELSE <<Head(kids)>> \o CollectDescendants(L, GetChildren(L, Head(kids)))
                        \o CollectDescendants(L, Tail(kids))

\* collect_layers_recursive(root_layer): the root first
CollectLayers(L, root) == <<root>> \o CollectDescendants(L, GetChildren(L, root))

(***************************************************************************)
(* Scene host: rt.saveNodes(nodes, file) writes the nodes with the layers  *)
(* they are on (and the parents of those layers) under the names the       *)
(* layers have at the time of the call; the default layer is "0".          *)
(***************************************************************************)
RECURSIVE AncestorsOf(_, _)
AncestorsOf(L, i) ==
    IF i = NoLayer \/ L[i].parent = NoLayer THEN {}
    ELSE {L[i].parent} \cup AncestorsOf(L, L[i].parent)

SaveNodes(L, O, nodes) ==
    LET used == {O[o].layer : o \in nodes}
        all == (used \cup UNION {AncestorsOf(L, i) : i \in used}) \ {1}
        ls == SortedSeq(all)
        os == SortedSeq(nodes)
    IN  [layers |-> [k \in DOMAIN ls |->
                       [name |-> L[ls[k]].name,
                        parent |-> IF L[ls[k]].parent = NoLayer THEN NoParentName
                                   ELSE L[L[ls[k]].parent].name]],
         objs |-> [k \in DOMAIN os |->
                       [name |-> O[os[k]].name, layer |-> L[O[os[k]].layer].name]]]

(***************************************************************************)
(* action_save_selected, the host part (lines 1337-1450).                  *)
(***************************************************************************)
\* the selection of nodes without the test of line 1375
NodesToSaveAll(L, O, root, descendants) == DOMAIN O
\* lines 1367-1376
NodesToSave(L, O, root, descendants) ==
    LET valid_layer_names == {L[root].name} \cup {L[d].name : d \in SeqRange(descendants)}
    IN  {o \in DOMAIN O : L[O[o].layer].name \in valid_layer_names}

\* lines 1383-1390: the nodes on "0 (<display>)" or on the root layer
MovedNodes(L, O, nodes, layer_name, display) ==
    {o \in nodes : L[O[o].layer].name \in {Suffixed(DefaultName, display), layer_name}}

\* lines 1396-1417, one iteration
StripLayer(L, i, root, display) ==
    LET original_name == L[i].name
        original_parent == L[i].parent
        clean_name == StripSuffix(original_name)
        skip == EndsWithSuffix(original_name, display) /\ clean_name = DefaultName
        L1 == IF EndsWithSuffix(original_name, display)
              THEN SetName(L, i, clean_name) ELSE L
    IN  IF skip THEN L
        ELSE IF original_parent # NoLayer /\ L[original_parent].name = L[root].name
             THEN SetParent(L1, i, NoLayer)
             ELSE L1

\* lines 1396-1417: "for layer in descendants"
RECURSIVE StripLayers(_, _, _, _, _)
StripLayers(L, descendants, k, root, display) ==
    IF k > Len(descendants) THEN L
    ELSE StripLayers(StripLayer(L, descendants[k], root, display),
                     descendants, k + 1, root, display)

\* line 1400: state_map, in insertion order
StateMap(L, descendants) ==
    [k \in DOMAIN descendants |->
        [layer |-> descendants[k],
         name |-> L[descendants[k]].name,
         parent |-> L[descendants[k]].parent]]

\* lines 1434-1442, one iteration
RestoreLayer(L, state) ==
    LET L1 == IF state.parent # NoLayer
              THEN SetParent(L, state.layer, state.parent) ELSE L
    IN  IF L1[state.layer].name # state.name
        THEN SetName(L1, state.layer, state.name) ELSE L1

\* lines 1434-1442: "for layer, state in state_map.items()"
RECURSIVE RestoreLayers(_, _, _)
RestoreLayers(L, state_map, k) ==
    IF k > Len(state_map) THEN L
    ELSE RestoreLayers(RestoreLayer(L, state_map[k]), state_map, k + 1)

\* lines 1444-1448: every moved node back onto the layer it was on
RestoreNodes(O, moved, Obefore) ==
    [o \in DOMAIN O |-> IF o \in moved THEN [O[o] EXCEPT !.layer = Obefore[o].layer]
                        ELSE O[o]]

\* lines 1343-1417 and 1427: the scene as the host save call sees it
SaveExtract(L, O, layer_name, display) ==
    LET root == GetLayerFromName(L, layer_name)
        descendants == CollectDescendants(L, GetChildren(L, root))
        nodes_to_save == NodesToSave(L, O, root, descendants)
        moved == MovedNodes(L, O, nodes_to_save, layer_name, display)
    IN  [layers |-> StripLayers(L, descendants, 1, root, display),
         objects |-> AddNodes(O, moved, 1),
         nodes |-> nodes_to_save,
         moved |-> moved,
         state_map |-> StateMap(L, descendants)]

(***************************************************************************)
(* reload_scene, the teardown (lines 506-543).                             *)
(***************************************************************************)
\* rt.delete(objs): the remaining objects keep their order
DeleteObjects(O, sel, dead) ==
    LET keep == SortedSeq(DOMAIN O \ dead)
    IN  [objects |-> [k \in DOMAIN keep |-> O[keep[k]]],
         selection |-> {k \in DOMAIN keep : keep[k] \in sel}]

\* the nodes of a set of references that are still valid after rt.delete
ValidNodes(O, refs, dead) == DeleteObjects(O, refs, dead).selection

\* rt.LayerManager.deleteLayerByName(name): refused for the default layer,
\* the current layer and a layer that still holds objects
DeleteLayerByName(L, O, name) ==
    LET i == GetLayerFromName(L, name)
        refused == \/ i = NoLayer
                   \/ i = 1
                   \/ L[i].current
                   \/ \E o \in DOMAIN O : O[o].layer = i
        shift(p) == IF p = i THEN NoLayer ELSE IF p > i THEN p - 1 ELSE p
        keep == SortedSeq(DOMAIN L \ {i})
    IN  IF refused THEN [layers |-> L, objects |-> O]
        ELSE [layers |-> [k \in DOMAIN keep |->
                            [L[keep[k]] EXCEPT !.parent = shift(L[keep[k]].parent)]],
              objects |-> [o \in DOMAIN O |-> [O[o] EXCEPT !.layer = shift(O[o].layer)]]]

\* lines 539-543: "for lyr in reversed(layers_to_clean)", by name
RECURSIVE DeleteLayers(_, _, _)
DeleteLayers(h, names, k) ==
    IF k = 0 THEN h
    ELSE DeleteLayers(DeleteLayerByName(h.layers, h.objects, names[k]), names, k - 1)

\* lines 528-534: the objects on a layer of the subtree
TeardownObjects(L, O, display) ==
    LET root_layer == GetLayerFromName(L, <<display>>)
        valid_names == {L[i].name : i \in SeqRange(CollectLayers(L, root_layer))}
    IN  IF root_layer = NoLayer THEN {}
        ELSE {o \in DOMAIN O : L[O[o].layer].name \in valid_names}

\* lines 506-543
Teardown(L, O, sel, display) ==
    LET root_layer == GetLayerFromName(L, <<display>>)
        layers_to_clean == CollectLayers(L, root_layer)
        names == [k \in DOMAIN layers_to_clean |-> L[layers_to_clean[k]].name]
        objs_to_delete == TeardownObjects(L, O, display)
        d == DeleteObjects(O, sel, objs_to_delete)
        h == DeleteLayers([layers |-> L, objects |-> d.objects], names, Len(names))
    IN  IF root_layer = NoLayer
        THEN [layers |-> L, objects |-> O, selection |-> sel]
        ELSE [layers |-> h.layers, objects |-> h.objects, selection |-> d.selection]

(***************************************************************************)
(* History.  The native name of a layer of an entry's subtree is its name  *)
(* without the suffix " (<display>)"; TreeOf is the set of <<native name,  *)
(* native name of the parent>> pairs of the subtree of the entry in row,   *)
(* the root layer standing for itself.                                     *)
(***************************************************************************)
NoTree == [row |-> 0, pairs |-> {}]

NativeName(name, display) ==
    IF EndsWithSuffix(name, display) THEN StripSuffix(name) ELSE name

NativePairs(L, display) ==
    LET root == GetLayerFromName(L, <<display>>)
        sub == IF root = NoLayer THEN {}
               ELSE SeqRange(CollectDescendants(L, GetChildren(L, root)))
    IN  {<<NativeName(L[i].name, display),
           IF L[i].parent = root THEN <<display>>
           ELSE NativeName(L[L[i].parent].name, display)>> : i \in sub}

TreeOf(row) ==
    [row |-> row, pairs |-> NativePairs(layers, scene_list[row].display)]

\* the handlers that leave every layer tree as it is
TreeKeepers == {"switch", "shot", "tick", "tick_ignore", "touch", "select", "copy",
                "green", "cyan", "merge_skip"}

\* the handlers whose completion lastOp records
Recorded == {"merge", "switch", "save", "tick_reload", "tick_reload_raise",
             "edit_pending"}
NoOp == [op |-> "none", save |-> "none"]

\* The handler named op leaves the panel, the host and the disk in state s;
\* save tells how a call of action_save_selected made by the handler ended
\* ("none" if it made none).
LeavesScene(s, op, save) ==
    /\ fileContent' = s.fileContent
    /\ fileMTime' = s.fileMTime
    /\ layers' = s.layers
    /\ objects' = s.objects
    /\ selection' = s.selection
    /\ clipboard' = s.clipboard
    /\ saveRequired' = s.saveRequired
    /\ scene_list' = s.scene_list
    /\ active_scene_item' = s.active_scene_item
    /\ file_timestamps' = s.file_timestamps
    /\ timerActive' = s.timerActive
    /\ pendingShots' = s.pendingShots
    /\ is_ui_dirty' = s.is_ui_dirty
    /\ disable_detection' = s.disable_detection
    /\ save_btn_marked' = s.save_btn_marked
    /\ background_check_counter' = s.background_check_counter
    /\ batch' = s.batch
    /\ lastOp' = IF op \in Recorded THEN [op |-> op, save |-> save] ELSE NoOp
    /\ savedTree' = IF op = "save" /\ save = "ok" THEN TreeOf(s.active_scene_item)
                    ELSE IF op \in TreeKeepers THEN savedTree
                    ELSE NoTree
\* a handler that does not touch the materials left the state s
Leaves(s, op, save) == LeavesScene(s, op, save) /\ sceneMaterials' = sceneMaterials

\* a handler other than merge_all_scenes has run
Becomes(s, op, save) == Leaves(s, op, save) /\ merged' = merged

(***************************************************************************)
(* The handlers of SceneSwitcherUI, as functions from state to state.      *)
(***************************************************************************)
\* saved counts the turns of the save loop whose action_save_selected
\* returned True (history: the code drops the value at line 1122)
IdleBatch == [mode |-> "idle", queue |-> <<>>, total |-> 0, saved |-> 0]

\* set_item_dirty(item, False) for every row (lines 1167-1168)
ClearStars(list) == [i \in DOMAIN list |-> [list[i] EXCEPT !.star = FALSE]]

\* update_list_highlights (lines 1290-1302)
UpdateListHighlights(list, active) ==
    [i \in DOMAIN list |-> [list[i] EXCEPT !.bold = (i = active)]]

\* check_green_markers_state (lines 956-965): the text of the Save button
CheckGreenMarkersState(list) == \E i \in DOMAIN list : list[i].green

\* the loop of lines 1153-1163 without "layer.current = True"
RECURSIVE SwitchLayersNoCurrent(_, _, _, _)
SwitchLayersNoCurrent(L, list, i, tgt_layer_name) ==
    IF i > Len(list) THEN L
    ELSE LET layer_name == list[i].display
             layer == GetLayerFromName(L, <<layer_name>>)
             L1 == IF layer = NoLayer THEN L
                   ELSE SetOn(L, layer, layer_name = tgt_layer_name)
         IN  SwitchLayersNoCurrent(L1, list, i + 1, tgt_layer_name)

\* the loop of lines 1153-1163 without "layer.on = False"
RECURSIVE SwitchLayersNoHide(_, _, _, _)
SwitchLayersNoHide(L, list, i, tgt_layer_name) ==
    IF i > Len(list) THEN L
    ELSE LET layer_name == list[i].display
             layer == GetLayerFromName(L, <<layer_name>>)
             L1 == IF layer # NoLayer /\ layer_name = tgt_layer_name
                   THEN SetCurrent(SetOn(L, layer, TRUE), layer)
                   ELSE L
         IN  SwitchLayersNoHide(L1, list, i + 1, tgt_layer_name)

\* lines 1153-1163: show the target's root layer, hide the other roots
RECURSIVE SwitchLayers(_, _, _, _)
SwitchLayers(L, list, i, tgt_layer_name) ==
    IF i > Len(list) THEN L
    ELSE LET layer_name == list[i].display
             layer == GetLayerFromName(L, <<layer_name>>)
             L1 == IF layer = NoLayer THEN L
                   ELSE IF layer_name = tgt_layer_name
                        THEN SetCurrent(SetOn(L, layer, TRUE), layer)
                        ELSE SetOn(L, layer, FALSE)
         IN  SwitchLayers(L1, list, i + 1, tgt_layer_name)

\* _perform_scene_switch(item) (lines 1145-1182)
PerformSceneSwitch(s, row) ==
    [s EXCEPT !.active_scene_item = row,
              !.selection = {},
              !.layers = SwitchLayers(s.layers, s.scene_list, 1,
                                      s.scene_list[row].display),
              !.scene_list = UpdateListHighlights(ClearStars(s.scene_list), row),
              !.pendingShots = s.pendingShots + 1]

\* import_single_scene with "if not is_reload" dropped at line 935
ImportFinishAdds(s, path, index, is_reload, h) ==
    LET item == [path |-> path, display |-> DisplayNameOf(path), cyan |-> FALSE,
                 green |-> FALSE, ext |-> FALSE, star |-> FALSE,
                 bold |-> (index = 0)]
        list == Append(s.scene_list, item)
    IN  [s EXCEPT !.file_timestamps[path] = s.fileMTime[path],
                  !.layers = h.layers,
                  !.objects = h.objects,
                  !.selection = h.selection,
                  !.saveRequired = TRUE,
                  !.scene_list = list,
                  !.save_btn_marked =
                      IF is_reload THEN @ ELSE CheckGreenMarkersState(list),
                  !.active_scene_item =
                      IF ~is_reload /\ index = 0 THEN Len(list) ELSE @]

\* lines 935-953 and the scene h the host calls left
ImportFinish(s, path, index, is_reload, h) ==
    LET item == [path |-> path, display |-> DisplayNameOf(path), cyan |-> FALSE,
                 green |-> FALSE, ext |-> FALSE, star |-> FALSE,
                 bold |-> (index = 0)]
        list == IF is_reload THEN s.scene_list ELSE Append(s.scene_list, item)
    IN  [s EXCEPT !.file_timestamps[path] = s.fileMTime[path],
                  !.layers = h.layers,
                  !.objects = h.objects,
                  !.selection = h.selection,
                  !.saveRequired = TRUE,
                  !.scene_list = list,
                  !.save_btn_marked =
                      IF is_reload THEN @ ELSE CheckGreenMarkersState(list),
                  !.active_scene_item =
                      IF ~is_reload /\ index = 0 THEN Len(list) ELSE @]

\* import_single_scene(full_path, index, is_reload) (lines 807-953); mergeOk
\* is FALSE when rt.mergeMaxFile raises
ImportSingleScene(s, path, index, is_reload, rev, mergeOk) ==
    IF ~mergeOk
    THEN [s |-> [s EXCEPT !.file_timestamps[path] = s.fileMTime[path],
                          !.layers = ImportRoot(s.layers, DisplayNameOf(path))],
          raised |-> TRUE]
    ELSE [s |-> ImportFinish(s, path, index, is_reload,
                    ImportMerged(ImportRoot(s.layers, DisplayNameOf(path)),
                                 s.objects, s.fileContent[path],
                                 DisplayNameOf(path), index, is_reload, rev)),
          raised |-> FALSE]

\* lines 760-761: "for index, full_path in enumerate(max_files)"; failAt is
\* the position of the file whose merge raises, 0 if none does; r is what
\* the import of the file before position k left
RECURSIVE ImportAll(_, _, _, _, _)
ImportAll(r, max_files, k, rev, failAt) ==
    IF r.raised \/ k > Len(max_files) THEN r
    ELSE ImportAll(ImportSingleScene(r.s, max_files[k], k - 1, FALSE, rev, failAt # k),
                   max_files, k + 1, rev, failAt)

\* rt.resetMaxFile(quiet=True) (line 746)
DefaultLayer == [name |-> DefaultName, parent |-> NoLayer, on |-> TRUE, current |-> TRUE]

\* lines 763-775: the first entry is activated and a single shot scheduled
MergeAllFinish(r) ==
    IF r.raised THEN r
    ELSE [s |-> [PerformSceneSwitch([r.s EXCEPT !.selection = {}], 1)
                    EXCEPT !.pendingShots = @ + 1],
          raised |-> FALSE]

\* merge_all_scenes without "self.scene_list.clear()" (lines 755-757)
MergeAllScenesNoClear(s, file_list, rev, failAt) ==
    MergeAllFinish(
        ImportAll([s |-> [s EXCEPT
                            !.timerActive = FALSE,
                            !.layers = <<DefaultLayer>>,
                            !.objects = <<>>,
                            !.selection = {},
                            !.clipboard = {},
                            !.saveRequired = FALSE,
                            !.save_btn_marked = CheckGreenMarkersState(s.scene_list),
                            !.file_timestamps = [f \in Files |-> NoTime]],
                   raised |-> FALSE],
                  file_list, 1, rev, failAt))

\* merge_all_scenes(folder_path, file_list) (lines 713-775)
MergeAllScenes(s, file_list, rev, failAt) ==
    MergeAllFinish(
        ImportAll([s |-> [s EXCEPT
                            !.timerActive = FALSE,
                            !.layers = <<DefaultLayer>>,
                            !.objects = <<>>,
                            !.selection = {},
                            !.clipboard = {},
                            !.saveRequired = FALSE,
                            !.save_btn_marked = CheckGreenMarkersState(s.scene_list),
                            !.scene_list = <<>>,
                            !.file_timestamps = [f \in Files |-> NoTime]],
                   raised |-> FALSE],
                  file_list, 1, rev, failAt))

\* merge_all_scenes(folder_path) with no file list: the scan of the folder
\* raises or finds no .max file (lines 720-744)
MergeAllSkipped(s) == [s EXCEPT !.timerActive = TRUE]

\* action_save_selected without the record of the mtime (lines 1459-1463)
ActionSaveOutcomeNoStamp(s, x, target_file, hostOk) ==
    IF x.nodes = {}
    THEN [s |-> [s EXCEPT !.timerActive = FALSE,
                          !.layers = RestoreLayers(x.layers, x.state_map, 1),
                          !.objects = RestoreNodes(x.objects, x.moved, s.objects),
                          !.pendingShots = @ + 1],
          result |-> "empty"]
    ELSE IF ~hostOk
    THEN [s |-> [s EXCEPT !.timerActive = FALSE,
                          !.layers = x.layers,
                          !.objects = x.objects,
                          !.selection = x.nodes,
                          !.saveRequired = TRUE],
          result |-> "raised"]
    ELSE [s |-> [s EXCEPT !.timerActive = FALSE,
                          !.fileContent[target_file] =
                              SaveNodes(x.layers, x.objects, x.nodes),
                          !.fileMTime[target_file] = Now(s.fileMTime) + 1,
                          !.layers = RestoreLayers(x.layers, x.state_map, 1),
                          !.objects = RestoreNodes(x.objects, x.moved, s.objects),
                          !.saveRequired = TRUE,
                          !.pendingShots = @ + 1],
          result |-> "ok"]
\* lines 1419-1468: x is the scene as rt.saveNodes sees it
ActionSaveOutcome(s, x, target_file, hostOk) ==
    IF x.nodes = {}
    THEN [s |-> [s EXCEPT !.timerActive = FALSE,
                          !.layers = RestoreLayers(x.layers, x.state_map, 1),
                          !.objects = RestoreNodes(x.objects, x.moved, s.objects),
                          !.pendingShots = @ + 1],
          result |-> "empty"]
    ELSE IF ~hostOk
    THEN [s |-> [s EXCEPT !.timerActive = FALSE,
                          !.layers = x.layers,
                          !.objects = x.objects,
                          !.selection = x.nodes,
                          !.saveRequired = TRUE],
          result |-> "raised"]
    ELSE [s |-> [s EXCEPT !.timerActive = FALSE,
                          !.fileContent[target_file] =
                              SaveNodes(x.layers, x.objects, x.nodes),
                          !.fileMTime[target_file] = Now(s.fileMTime) + 1,
                          !.file_timestamps[target_file] = Now(s.fileMTime) + 1,
                          !.layers = RestoreLayers(x.layers, x.state_map, 1),
                          !.objects = RestoreNodes(x.objects, x.moved, s.objects),
                          !.saveRequired = TRUE,
                          !.pendingShots = @ + 1],
          result |-> "ok"]

\* action_save_selected (lines 1310-1468); hostOk is FALSE when rt.saveNodes
\* raises.  result is the value returned, "raised" if the call did not return.
ActionSaveSelected(s, hostOk) ==
    IF s.active_scene_item = 0 THEN [s |-> s, result |-> "noactive"]
    ELSE IF GetLayerFromName(s.layers,
                <<s.scene_list[s.active_scene_item].display>>) = NoLayer
    THEN [s |-> [s EXCEPT !.timerActive = TRUE], result |-> "noroot"]
    ELSE ActionSaveOutcome(
            s,
            SaveExtract(s.layers, s.objects,
                        <<s.scene_list[s.active_scene_item].display>>,
                        DisplayNameOf(s.scene_list[s.active_scene_item].path)),
            s.scene_list[s.active_scene_item].path, hostOk)

\* lines 505-543 applied to the panel's state; t is the scene after the
\* teardown and dead the objects it deleted
ReloadTeardown(s, t, dead) ==
    [s EXCEPT !.layers = t.layers,
              !.objects = t.objects,
              !.selection = t.selection,
              !.clipboard = ValidNodes(s.objects, s.clipboard, dead),
              !.saveRequired = TRUE]

\* lines 547-564: r is what import_single_scene left
ReloadFinish(r, row) ==
    [r.s EXCEPT !.scene_list[row].ext = IF r.raised THEN @ ELSE FALSE,
                !.timerActive = IF row = r.s.active_scene_item THEN TRUE ELSE @]

\* reload_scene(item) (lines 491-564); mergeOk is FALSE when rt.mergeMaxFile
\* raises, which the handler catches
ReloadScene(s, row, rev, mergeOk) ==
    ReloadFinish(
        ImportSingleScene(
            ReloadTeardown(s,
                Teardown(s.layers, s.objects, s.selection, s.scene_list[row].display),
                TeardownObjects(s.layers, s.objects, s.scene_list[row].display)),
            s.scene_list[row].path, row - 1, TRUE, rev, mergeOk),
        row)

\* check_dirty_status (lines 1217-1237)
CheckDirtyStatus(s) ==
    LET a == s.active_scene_item IN
    IF a = 0 THEN s
    ELSE IF s.disable_detection
    THEN IF s.is_ui_dirty
         THEN [s EXCEPT !.scene_list[a].star = FALSE, !.is_ui_dirty = FALSE]
         ELSE s
    ELSE IF s.saveRequired # s.is_ui_dirty
    THEN [s EXCEPT !.scene_list[a].star = s.saveRequired,
                   !.is_ui_dirty = s.saveRequired]
    ELSE s

\* check_external_changes is due to prompt (lines 441-452)
ExternalChangeSeen(s) ==
    /\ s.active_scene_item # 0
    /\ LET full_path == s.scene_list[s.active_scene_item].path IN
       /\ s.file_timestamps[full_path] # NoTime
       /\ s.fileMTime[full_path] > s.file_timestamps[full_path]

\* check_external_changes with "if current_mtime > last_mtime + 1" at line 449
CheckExternalChangesLate(s, answer, rev, mergeOk) ==
    LET full_path == s.scene_list[s.active_scene_item].path IN
    IF ~ExternalChangeSeen(s) THEN s
    ELSE IF s.fileMTime[full_path] <= s.file_timestamps[full_path] + 1 THEN s
    ELSE IF answer = "Reload"
    THEN ReloadScene([s EXCEPT !.timerActive = FALSE], s.active_scene_item, rev, mergeOk)
    ELSE [s EXCEPT !.file_timestamps[full_path] = s.fileMTime[full_path],
                   !.timerActive = TRUE]

\* check_external_changes without line 477, which adopts the mtime on disk
CheckExternalChangesNoAdopt(s, answer, rev, mergeOk) ==
    IF ~ExternalChangeSeen(s) THEN s
    ELSE IF answer = "Reload"
    THEN ReloadScene([s EXCEPT !.timerActive = FALSE], s.active_scene_item, rev, mergeOk)
    ELSE [s EXCEPT !.timerActive = TRUE]

\* check_external_changes (lines 436-482); answer is the button clicked
CheckExternalChanges(s, answer, rev, mergeOk) ==
    LET full_path == s.scene_list[s.active_scene_item].path IN
    IF ~ExternalChangeSeen(s) THEN s
    ELSE IF answer = "Reload"
    THEN ReloadScene([s EXCEPT !.timerActive = FALSE], s.active_scene_item, rev, mergeOk)
    ELSE [s EXCEPT !.file_timestamps[full_path] = s.fileMTime[full_path],
                   !.timerActive = TRUE]

\* check_background_files without the test of line 415
CheckBackgroundFilesAll(s) ==
    [s EXCEPT !.scene_list =
        [i \in DOMAIN s.scene_list |->
            LET item == s.scene_list[i] IN
            IF s.file_timestamps[item.path] = NoTime
            THEN item
            ELSE [item EXCEPT !.ext =
                     s.fileMTime[item.path] > s.file_timestamps[item.path]]]]

\* check_background_files (lines 406-434)
CheckBackgroundFiles(s) ==
    [s EXCEPT !.scene_list =
        [i \in DOMAIN s.scene_list |->
            LET item == s.scene_list[i] IN
            IF i = s.active_scene_item \/ s.file_timestamps[item.path] = NoTime
            THEN item
            ELSE [item EXCEPT !.ext =
                     s.fileMTime[item.path] > s.file_timestamps[item.path]]]]

\* "if self.background_check_counter >= 10" (line 402)
BackgroundEvery == 10

\* lines 401-404: s1 is the state the two checks left
CountTick(s1) ==
    IF s1.background_check_counter + 1 >= BackgroundEvery
    THEN [CheckBackgroundFiles(s1) EXCEPT !.background_check_counter = 0]
    ELSE [s1 EXCEPT !.background_check_counter = @ + 1]

\* check_modifications (lines 395-404)
CheckModifications(s, answer, rev, mergeOk) ==
    CountTick(CheckExternalChanges(CheckDirtyStatus(s), answer, rev, mergeOk))

\* force_clean_and_restart_timer without "rt.setSaveRequired(False)" (line 1204)
ForceCleanNoClear(s) ==
    LET a == s.active_scene_item
        list == IF a = 0 THEN s.scene_list
                ELSE [s.scene_list EXCEPT ![a].star = FALSE]
    IN  [s EXCEPT !.scene_list = list,
                  !.is_ui_dirty = FALSE,
                  !.timerActive = TRUE,
                  !.pendingShots = s.pendingShots - 1]

\* force_clean_and_restart_timer (lines 1184-1215), run by a singleShot
ForceCleanAndRestartTimer(s) ==
    LET a == s.active_scene_item
        list == IF a = 0 THEN s.scene_list
                ELSE [s.scene_list EXCEPT ![a].star = FALSE]
    IN  [s EXCEPT !.saveRequired = FALSE,
                  !.scene_list = list,
                  !.is_ui_dirty = FALSE,
                  !.timerActive = TRUE,
                  !.pendingShots = s.pendingShots - 1]

\* action_paste (lines 1480-1530): one clone per clipboard node, on the
\* active entry's root layer or, failing that, on the current layer
ActionPaste(s) ==
    LET a == s.active_scene_item
        named == IF a = 0 THEN NoLayer
                 ELSE GetLayerFromName(s.layers, <<s.scene_list[a].display>>)
        target_layer == IF named # NoLayer THEN named
                        ELSE CHOOSE i \in DOMAIN s.layers : s.layers[i].current
        clip == SortedSeq(s.clipboard)
        clones == [k \in DOMAIN clip |->
                     [name |-> s.objects[clip[k]].name, layer |-> target_layer]]
    IN  IF s.clipboard = {} THEN s
        ELSE [s EXCEPT !.objects = s.objects \o clones,
                       !.selection = (Len(s.objects) + 1)..(Len(s.objects) + Len(clones)),
                       !.saveRequired = TRUE]

\* lines 1280-1288 and 1141-1143: saved is what action_save_selected left
SwitchAfterSave(saved, row) ==
    IF saved.result = "raised" THEN saved
    ELSE IF saved.result = "ok"
    THEN [s |-> PerformSceneSwitch(saved.s, row), result |-> "ok"]
    ELSE [s |-> [saved.s EXCEPT !.timerActive = TRUE], result |-> saved.result]

\* switch_to_scene_layer without the "self.dirty_timer.start(500)" of line 1140
SwitchNoRestart(s, row, answer, hostOk) ==
    IF row = s.active_scene_item THEN [s |-> s, result |-> "same"]
    ELSE IF s.disable_detection \/ ~s.saveRequired
    THEN [s |-> PerformSceneSwitch([s EXCEPT !.timerActive = FALSE], row),
          result |-> "none"]
    ELSE IF answer = "Cancel"
    THEN [s |-> [s EXCEPT !.timerActive = FALSE], result |-> "cancel"]
    ELSE IF answer = "Don't Save"
    THEN [s |-> PerformSceneSwitch(
                   [s EXCEPT !.timerActive = FALSE, !.pendingShots = @ + 1], row),
          result |-> "discard"]
    ELSE SwitchAfterSave(
            ActionSaveSelected([s EXCEPT !.timerActive = FALSE], hostOk), row)

\* check_unsaved_changes and switch_to_scene_layer (lines 1128-1143 and
\* 1239-1288); answer is the button clicked at the save prompt
SwitchToSceneLayer(s, row, answer, hostOk) ==
    IF row = s.active_scene_item THEN [s |-> s, result |-> "same"]
    ELSE IF s.disable_detection \/ ~s.saveRequired
    THEN [s |-> PerformSceneSwitch([s EXCEPT !.timerActive = FALSE], row),
          result |-> "none"]
    ELSE IF answer = "Cancel"
    THEN [s |-> [s EXCEPT !.timerActive = TRUE], result |-> "cancel"]
    ELSE IF answer = "Don't Save"
    THEN [s |-> PerformSceneSwitch(
                   [s EXCEPT !.timerActive = FALSE, !.pendingShots = @ + 1], row),
          result |-> "discard"]
    ELSE SwitchAfterSave(
            ActionSaveSelected([s EXCEPT !.timerActive = FALSE], hostOk), row)

(***************************************************************************)
(* Scene files on disk when the panel is opened.  An object is named       *)
(* <<file, k>>; self is the base name of the file, other the base name of  *)
(* the other file.                                                         *)
(***************************************************************************)
FileObj(self, k, layer) == [name |-> <<self, k>>, layer |-> layer]
FileLayer(name, parent) == [name |-> name, parent |-> parent]

\* objects on the default layer only
TplPlain(self) ==
    [layers |-> <<>>, objs |-> <<FileObj(self, 1, DefaultName)>>]
\* a layer "Props", and an object on the default layer
TplProps(self) ==
    [layers |-> <<FileLayer(<<"Props">>, NoParentName)>>,
     objs |-> <<FileObj(self, 1, <<"Props">>), FileObj(self, 2, DefaultName)>>]
\* a layer "Sub" nested in a layer "Props"
TplNested(self) ==
    [layers |-> <<FileLayer(<<"Props">>, NoParentName),
                  FileLayer(<<"Sub">>, <<"Props">>)>>,
     objs |-> <<FileObj(self, 1, <<"Sub">>)>>]
\* layers "Props" and "Props (<self>)"
TplTwin(self) ==
    [layers |-> <<FileLayer(<<"Props">>, NoParentName),
                  FileLayer(<<"Props", self>>, NoParentName)>>,
     objs |-> <<FileObj(self, 1, <<"Props">>), FileObj(self, 2, <<"Props", self>>)>>]
\* a layer named as the other file
TplOther(self, other) ==
    [layers |-> <<FileLayer(<<other>>, NoParentName)>>,
     objs |-> <<FileObj(self, 1, <<other>>)>>]
\* a layer "0 (<self>)"
TplZero(self) ==
    [layers |-> <<FileLayer(<<"0", self>>, NoParentName)>>,
     objs |-> <<FileObj(self, 1, <<"0", self>>)>>]

InitWith(contents) ==
    /\ fileContent \in contents
    /\ fileMTime = [f \in Files |-> 0]
    /\ layers = <<DefaultLayer>>
    /\ objects = <<>>
    /\ selection = {}
    /\ clipboard = {}
    /\ saveRequired = FALSE
    /\ scene_list = <<>>
    /\ active_scene_item = 0
    /\ file_timestamps = [f \in Files |-> NoTime]
    /\ timerActive = TRUE
    /\ pendingShots = 0
    /\ is_ui_dirty = FALSE
    /\ disable_detection = TRUE
    /\ save_btn_marked = FALSE
    /\ background_check_counter = 0
    /\ batch = IdleBatch
    /\ lastOp = NoOp
    /\ savedTree = NoTree
    /\ merged = <<>>
    /\ sceneMaterials = <<>>

(***************************************************************************)
(* Actions: one per handler the event loop can run.                        *)
(***************************************************************************)
\* the event loop is free to run a handler
Idle == batch.mode = "idle"
\* the event loop runs: the main one, or that of the "Batch Complete" message
Pumping == batch.mode \in {"idle", "dialog"}
Ready == Idle /\ pendingShots < MaxShots

ActiveFile == scene_list[active_scene_item].path

\* The handler named op returned r; a call that ends as it would with a
\* working host is taken with hostOk only.
Returns(r, op, hostOk) ==
    /\ (r.result # "ok" /\ r.result # "raised") => hostOk
    /\ Becomes(r.s, op, r.result)

\* the merge of file_list left r
MergeBecomes(r, file_list) ==
    /\ Leaves(r.s, IF r.raised THEN "merge_raise" ELSE "merge", "none")
    /\ merged' = file_list

\* browse_folder: the files chosen in the dialog, in the dialog's order
MergeAll(lists) ==
    /\ Ready
    /\ \E file_list \in lists, failAt \in 0..2, rev \in BOOLEAN :
         /\ failAt <= Len(file_list)
         /\ failAt = 1 => active_scene_item = 0
         /\ MergeBecomes(MergeAllScenes(State, file_list, rev, failAt), file_list)

\* merge_all_scenes is called for a folder that cannot be listed or holds
\* no scene file
MergeNothing ==
    /\ Ready
    /\ Becomes(MergeAllSkipped(State), "merge_skip", "none")

\* the first use of the browse button
FirstMerge(lists) == scene_list = <<>> /\ MergeAll(lists)

\* double click on a row of the list
SwitchActive ==
    /\ Ready
    /\ active_scene_item # 0
    /\ \E row \in DOMAIN scene_list :
         /\ row # active_scene_item
         /\ \E answer \in {"Save", "Don't Save", "Cancel"}, hostOk \in BOOLEAN :
              /\ (disable_detection \/ ~saveRequired) => (answer = "Save" /\ hostOk)
              /\ Now(fileMTime) < MaxTime
              /\ Returns(SwitchToSceneLayer(State, row, answer, hostOk), "switch", TRUE)

\* the Save button while it reads "Save" (action_save_wrapper, lines 1036-1041)
SaveActive ==
    /\ Ready
    /\ ~save_btn_marked
    /\ active_scene_item # 0
    /\ Now(fileMTime) < MaxTime
    /\ \E hostOk \in BOOLEAN :
         Returns(ActionSaveSelected(State, hostOk), "save", hostOk)

\* a tick of dirty_timer.  The timer runs with a period of 500 ms and every
\* handler that schedules a single shot (100 or 200 ms) has stopped the
\* timer before and starts it again, if at all, afterwards: the single
\* shots that are pending come due before the next tick.
Tick ==
    /\ Pumping
    /\ timerActive
    /\ pendingShots = 0
    /\ IF ExternalChangeSeen(State)
       THEN \/ Becomes(CheckModifications(State, "Ignore", FALSE, TRUE),
                       "tick_ignore", "none")
            \/ \E rev \in BOOLEAN :
                 Becomes(CheckModifications(State, "Reload", rev, TRUE),
                         "tick_reload", "none")
            \/ Becomes(CheckModifications(State, "Reload", FALSE, FALSE),
                       "tick_reload_raise", "none")
       ELSE Becomes(CheckModifications(State, "Ignore", FALSE, TRUE), "tick", "none")

\* a tick that finds the active entry's file changed on disk
TickOnChange == ExternalChangeSeen(State) /\ Tick

\* a QTimer.singleShot callback comes due
FireShot ==
    /\ Pumping
    /\ pendingShots > 0
    /\ Becomes(ForceCleanAndRestartTimer(State), "shot", "none")

\* another program writes one of the scene files fs
ExternalTouch(fs) ==
    \E f \in fs :
        /\ Idle
        /\ Now(fileMTime) < MaxTime
        /\ fileMTime' = [fileMTime EXCEPT ![f] = Now(fileMTime) + 1]
        /\ lastOp' = NoOp
        /\ UNCHANGED <<savedTree, merged, sceneMaterials>>
        /\ UNCHANGED <<fileContent, layers, objects, selection, clipboard,
                       saveRequired, scene_list, active_scene_item,
                       file_timestamps, timerActive, pendingShots, is_ui_dirty,
                       disable_detection, save_btn_marked,
                       background_check_counter, batch>>

\* another program writes the active entry's file
TouchActive == active_scene_item # 0 /\ ExternalTouch({ActiveFile})

\* the user picks an object in the viewport
UserSelect ==
    /\ Idle
    /\ \E o \in DOMAIN objects :
         /\ selection # {o}
         /\ Becomes([State EXCEPT !.selection = {o}], "select", "none")

\* the user adds an object of a visible layer to the selection
UserSelectMore ==
    /\ Idle
    /\ Cardinality(selection) < MaxSelected
    /\ \E o \in DOMAIN objects \ selection :
         /\ layers[objects[o].layer].on
         /\ Becomes([State EXCEPT !.selection = selection \cup {o}], "select", "none")

\* action_copy without the replacement of what the clipboard held
CopyAdds ==
    /\ Idle
    /\ clipboard # selection
    /\ Becomes([State EXCEPT !.clipboard = clipboard \cup selection], "copy", "none")
\* action_copy (lines 1470-1478)
Copy ==
    /\ Idle
    /\ clipboard # selection
    /\ Becomes([State EXCEPT !.clipboard = selection], "copy", "none")

\* the Paste button
Paste ==
    /\ Idle
    /\ Len(objects) + Cardinality(clipboard) <= MaxObjects
    /\ Becomes(ActionPaste(State), "paste", "none")

IsGreen(item) == item.green
IsConflict(item) == item.green /\ item.ext
\* items_to_save and conflicting_items (lines 1046-1057), in list order
GreenRows(list) == SortedSeq({i \in DOMAIN list : IsGreen(list[i])})
ConflictRows(list) == SortedSeq({i \in DOMAIN list : IsConflict(list[i])})

\* action_batch_save up to the start of a loop (lines 1043-1110 and 1115);
\* clicked is the button of the conflict prompt
ActionBatchSave(s, clicked) ==
    LET items_to_save == GreenRows(s.scene_list)
        conflicting_items == ConflictRows(s.scene_list)
        loop(mode, queue) ==
            [s EXCEPT !.timerActive = FALSE,
                      !.batch = [mode |-> mode, queue |-> queue,
                                 total |-> Len(items_to_save), saved |-> 0]]
    IN  IF items_to_save = <<>> THEN s
        ELSE IF conflicting_items = <<>> THEN loop("save", items_to_save)
        ELSE IF clicked = "Cancel" THEN s
        ELSE IF clicked = "Reload All" THEN loop("reload", conflicting_items)
        ELSE loop("save", items_to_save)

\* the end of a turn of the Reload All loop: the finally clause (lines
\* 1101-1102) runs after the last turn
BatchReloadNext(s1, rest) ==
    IF rest = <<>>
    THEN [s1 EXCEPT !.timerActive = TRUE, !.batch = IdleBatch]
    ELSE [s1 EXCEPT !.batch.queue = rest]

\* one turn of the Reload All loop (lines 1096-1100)
BatchReloadStep(s, rev, mergeOk) ==
    BatchReloadNext(
        ReloadScene(PerformSceneSwitch(s, Head(s.batch.queue)),
                    Head(s.batch.queue), rev, mergeOk),
        Tail(s.batch.queue))

\* the end of a turn of the loop of _perform_batch_save: a save that raises
\* leaves through the finally clause (lines 1125-1126), the last turn opens
\* the "Batch Complete" message (line 1124)
BatchSaveNext(r, rest) ==
    [s |-> IF r.result = "raised"
           THEN [r.s EXCEPT !.timerActive = TRUE, !.batch = IdleBatch]
           ELSE IF rest = <<>>
           THEN [r.s EXCEPT !.batch.mode = "dialog", !.batch.queue = rest,
                            !.batch.saved = IF r.result = "ok" THEN @ + 1 ELSE @]
           ELSE [r.s EXCEPT !.batch.queue = rest,
                            !.batch.saved = IF r.result = "ok" THEN @ + 1 ELSE @],
     result |-> r.result]

\* one turn of the loop of _perform_batch_save (lines 1118-1122)
BatchSaveStep(s, hostOk) ==
    BatchSaveNext(
        ActionSaveSelected(PerformSceneSwitch(s, Head(s.batch.queue)), hostOk),
        Tail(s.batch.queue))

\* the "Batch Complete" message is closed (lines 1124-1126)
BatchComplete(s) == [s EXCEPT !.timerActive = TRUE, !.batch = IdleBatch]

\* a click on the green strip of a row (lines 135-138), and the dataChanged
\* signal it sends (line 275)
ToggleGreenMarker(s, row) ==
    LET list == [s.scene_list EXCEPT ![row].green = ~s.scene_list[row].green]
    IN  [s EXCEPT !.scene_list = list,
                  !.save_btn_marked = CheckGreenMarkersState(list)]

\* a click on the cyan strip of a row (lines 125-128)
ToggleCyanMarker(s, row) ==
    [s EXCEPT !.scene_list[row].cyan = ~s.scene_list[row].cyan]

\* toggle_all_markers (lines 331-345): the cyan marker of every row is set
\* to the state of the master check box
ToggleAllMarkers(s, state) ==
    [s EXCEPT !.scene_list =
        [i \in DOMAIN s.scene_list |-> [s.scene_list[i] EXCEPT !.cyan = state]]]

\* toggle_all_green_markers (lines 347-361)
ToggleAllGreenMarkers(s, state) ==
    [s EXCEPT !.scene_list =
        [i \in DOMAIN s.scene_list |-> [s.scene_list[i] EXCEPT !.green = state]],
              !.save_btn_marked = state /\ s.scene_list # <<>>]

\* action_batch_save left s1; a save loop starts while the clock has room
\* for its writes
BatchStarts(s1) ==
    /\ s1.batch.mode = "save" => Now(fileMTime) + Len(s1.batch.queue) <= MaxTime
    /\ Becomes(s1, "batch_start", "none")

\* the Save button while it reads "Save marked"
BatchStart ==
    /\ Ready
    /\ save_btn_marked
    /\ \E clicked \in {"Reload All", "Overwrite", "Cancel"} :
         /\ ~(\E row \in DOMAIN scene_list : IsConflict(scene_list[row]))
               => clicked = "Overwrite"
         /\ BatchStarts(ActionBatchSave(State, clicked))

\* the next turn of the Reload All loop
BatchReloadTurn ==
    /\ batch.mode = "reload"
    /\ \E rev \in BOOLEAN, mergeOk \in BOOLEAN :
         /\ ~mergeOk => ~rev
         /\ Becomes(BatchReloadStep(State, rev, mergeOk), "batch_reload", "none")

\* the next turn of the loop of _perform_batch_save
BatchSaveTurn ==
    /\ batch.mode = "save"
    /\ \E hostOk \in BOOLEAN :
         Returns(BatchSaveStep(State, hostOk), "batch_save", hostOk)

\* the user closes the "Batch Complete" message
BatchEnd ==
    /\ batch.mode = "dialog"
    /\ Becomes(BatchComplete(State), "batch_end", "none")

\* the user clicks the green strip of a row
ToggleGreen ==
    /\ Idle
    /\ \E row \in DOMAIN scene_list :
         Becomes(ToggleGreenMarker(State, row), "green", "none")

\* the user clicks the cyan strip of a row
ToggleCyan ==
    /\ Idle
    /\ \E row \in DOMAIN scene_list :
         Becomes(ToggleCyanMarker(State, row), "cyan", "none")

\* the user clicks a master check box of the header
ToggleAll ==
    /\ Idle
    /\ scene_list # <<>>
    /\ \E state \in BOOLEAN :
         \/ Becomes(ToggleAllMarkers(State, state), "cyan", "none")
         \/ Becomes(ToggleAllGreenMarkers(State, state), "green", "none")

(***************************************************************************)
(* Specifications.                                                         *)
(***************************************************************************)
\* SpecTree: the layer tree.  Every combination of file contents, merged in
\* either order or alone; ticks are taken when a file has changed on disk.
TemplateKinds == 1..6
Template(kind, self, other) ==
    CASE kind = 1 -> TplPlain(self)
      [] kind = 2 -> TplProps(self)
      [] kind = 3 -> TplNested(self)
      [] kind = 4 -> TplTwin(self)
      [] kind = 5 -> TplOther(self, other)
      [] kind = 6 -> TplZero(self)
TreeContents ==
    {[f \in Files |-> IF f = PathA THEN Template(k, "A", "B")
                      ELSE Template(k, "B", "A")] : k \in TemplateKinds}
TreeLists == {<<PathA, PathB>>, <<PathB, PathA>>, <<PathA>>}

InitTree == InitWith(TreeContents)
NextTree ==
    \/ FirstMerge(TreeLists)
    \/ SwitchActive
    \/ SaveActive
    \/ TickOnChange
    \/ FireShot
    \/ TouchActive
SpecTree == InitTree /\ [][NextTree]_vars

\* Spec: the poller.  Two files with a layer "Props" each; the buttons that
\* act on one entry, the timer and its single shots, and writes by other
\* programs.
PollContents ==
    {[f \in Files |-> IF f = PathA THEN TplProps("A") ELSE TplProps("B")]}
PollLists == {<<PathA, PathB>>}

Init == InitWith(PollContents)
Next ==
    \/ FirstMerge(PollLists)
    \/ SwitchActive
    \/ SaveActive
    \/ Tick
    \/ FireShot
    \/ ExternalTouch(Files)
Spec == Init /\ [][Next]_vars

\* a single shot that is due is run by the event loop
FairSpec == Spec /\ WF_vars(FireShot)

\* SpecBatch: the poller and the green markers with "Save marked".
NextBatch ==
    \/ FirstMerge(PollLists)
    \/ SwitchActive
    \/ ToggleGreen
    \/ BatchStart
    \/ BatchSaveTurn
    \/ BatchReloadTurn
    \/ BatchEnd
    \/ Tick
    \/ FireShot
    \/ ExternalTouch(Files)
SpecBatch == Init /\ [][NextBatch]_vars

\* SpecSwitch: every way the active entry changes or is loaded again, with
\* ticks taken when the active entry's file has changed on disk.
NextSwitch ==
    \/ FirstMerge(PollLists)
    \/ SwitchActive
    \/ SaveActive
    \/ ToggleGreen
    \/ BatchStart
    \/ BatchSaveTurn
    \/ BatchEnd
    \/ TickOnChange
    \/ FireShot
    \/ TouchActive
SpecSwitch == Init /\ [][NextSwitch]_vars

(***************************************************************************)
(* Properties.                                                             *)
(***************************************************************************)
Rows == DOMAIN scene_list
RootOf(row) == GetLayerFromName(layers, <<scene_list[row].display>>)
SubtreeOf(L, root) == IF root = NoLayer THEN {} ELSE SeqRange(CollectLayers(L, root))
\* the top-level layers other than the default layer
TopLevelLayers == {i \in DOMAIN layers : i # 1 /\ layers[i].parent = NoLayer}
UniqueLayerNames == \A i, j \in DOMAIN layers : layers[i].name = layers[j].name => i = j
HasLayer(name) == \E i \in DOMAIN layers : layers[i].name = name
MergeCompleted == lastOp.op = "merge"

\* C1: after mergeAll over N files there are exactly N root (top-level)
\* layers, each named as the base name of its file, and no two layers of
\* the scene have the same name, whatever the layer names in the files.
C1_RootLayersAfterMerge ==
    MergeCompleted =>
        /\ Cardinality(TopLevelLayers) = Len(scene_list)
        /\ {layers[i].name : i \in TopLevelLayers}
              = {<<scene_list[row].display>> : row \in Rows}
        /\ UniqueLayerNames

C1_Witness ==
    /\ MergeCompleted
    /\ Len(scene_list) = 2
    /\ HasLayer(<<"0", "A">>)
    /\ fileContent[PathA] = TplZero("A")

\* the subtree of the active entry keeps names, parents and objects in a step
ActiveTreeKept ==
    /\ \A i \in SubtreeOf(layers, RootOf(active_scene_item)) :
          /\ i \in DOMAIN layers'
          /\ layers'[i].name = layers[i].name
          /\ layers'[i].parent = layers[i].parent
    /\ Len(objects') = Len(objects)
    /\ \A o \in DOMAIN objects : objects'[o].layer = objects[o].layer

\* C2: when the host save call returns, saveActive leaves every layer of
\* the active subtree with the name and parent it had, and every object
\* on the layer it was on.
C2_SaveRestoresTree ==
    [][(lastOp'.op = "save" /\ lastOp'.save = "ok") => ActiveTreeKept]_vars

C2_Witness ==
    /\ lastOp = [op |-> "save", save |-> "ok"]
    /\ active_scene_item = 1
    /\ HasLayer(<<"Props", "A", "A">>)

\* C3: when the host save call raises, the names, parents and object
\* placement of the active subtree are still restored.
C3_FailedSaveRestoresTree ==
    [][(lastOp'.op = "save" /\ lastOp'.save = "raised") => ActiveTreeKept]_vars

C3_Witness ==
    /\ lastOp = [op |-> "save", save |-> "raised"]
    /\ HasLayer(<<"Props">>)

\* C9: saveActive followed by reload of the same entry leaves the set of
\* (native layer name, parent) pairs of the entry's subtree as it was
\* before the save.
C9_SaveThenReloadKeepsTree ==
    [][(/\ lastOp'.op = "tick_reload"
        /\ savedTree.row # 0
        /\ savedTree.row = active_scene_item)
       => NativePairs(layers', scene_list[active_scene_item].display)
             = savedTree.pairs]_vars

C9_Witness ==
    /\ savedTree.row # 0
    /\ savedTree.row = active_scene_item
    /\ savedTree.pairs # {}
    /\ ExternalChangeSeen(State)

\* the file holds a layer named name
FileHasLayer(f, name) ==
    \E k \in DOMAIN fileContent[f].layers : fileContent[f].layers[k].name = name
\* the names of the objects the file keeps on the layer named name
FileObjectsOn(f, name) ==
    {fileContent[f].objs[k].name :
        k \in {j \in DOMAIN fileContent[f].objs : fileContent[f].objs[j].layer = name}}
\* the layer "Props (<display>)" is under the root layer <display> and holds
\* the objects the file keeps on "Props"
PropsNamespaced(f) ==
    LET d == DisplayNameOf(f)
        i == GetLayerFromName(layers, <<"Props", d>>)
        root == GetLayerFromName(layers, <<d>>)
    IN  /\ i # NoLayer
        /\ root # NoLayer
        /\ layers[i].parent = root
        /\ layers[root].parent = NoLayer
        /\ \A o \in DOMAIN objects :
              objects[o].name \in FileObjectsOn(f, <<"Props">>) => objects[o].layer = i

PropsScenario ==
    /\ MergeCompleted
    /\ Len(scene_list) = 2
    /\ \A f \in Files : FileHasLayer(f, <<"Props">>)

\* C10: merging A.max and B.max, in either order, that both hold a layer
\* "Props" yields "Props (A)" under "A" and "Props (B)" under "B", each with
\* its file's Props objects, and no layer named "Props".
C10_PropsScenario ==
    PropsScenario => /\ \A f \in Files : PropsNamespaced(f)
                     /\ ~HasLayer(<<"Props">>)

C10_Witness ==
    /\ PropsScenario
    /\ \A f \in Files : PropsNamespaced(f)
    /\ \E o \in DOMAIN objects : layers[objects[o].layer].name = <<"Props", "B">>

\* the rows shown in bold, the mark of the active entry
BoldRows == {row \in Rows : scene_list[row].bold}
CurrentLayers == {i \in DOMAIN layers : layers[i].current}
\* a handler that switches the active entry has run to its end
SwitchCompleted == lastOp'.op \in {"switch", "merge"} \/ batch.mode = "save"

\* C4: at most one entry is active, and after a switch of the active entry
\* (by double click, inside a batch save, or at the end of a merge) the new
\* active entry's root layer is the only current layer.
C4_OneActiveOneCurrent ==
    /\ [](BoldRows \subseteq {active_scene_item})
    /\ [][SwitchCompleted =>
            (/\ active_scene_item' \in DOMAIN scene_list'
             /\ LET root == GetLayerFromName(layers',
                               <<scene_list'[active_scene_item'].display>>)
                IN  /\ root # NoLayer
                    /\ {i \in DOMAIN layers' : layers'[i].current} = {root})]_vars

C4_Witness ==
    /\ lastOp.op = "switch"
    /\ active_scene_item = 2
    /\ CurrentLayers = {RootOf(2)}
    /\ ~layers[RootOf(1)].current

\* the active entry's root layer is visible and current, every other
\* entry's root layer is hidden
ExclusiveView ==
    /\ active_scene_item \in Rows
    /\ RootOf(active_scene_item) # NoLayer
    /\ layers[RootOf(active_scene_item)].on
    /\ layers[RootOf(active_scene_item)].current
    /\ \A row \in Rows \ {active_scene_item} :
          RootOf(row) # NoLayer => ~layers[RootOf(row)].on

\* C5: after a completed switchActive(target) the target is the active
\* entry, its root layer is visible and current and every other entry's
\* root layer is hidden; the same holds after a reload of the active entry
\* and after every step of a batch save.
C5_ExclusiveViewAfterSwitch ==
    [][(\/ lastOp'.op = "switch" /\ active_scene_item' # active_scene_item
        \/ lastOp'.op \in {"tick_reload", "tick_reload_raise"}
        \/ batch.mode # "idle") => ExclusiveView']_vars

C5_Witness ==
    /\ lastOp.op = "switch"
    /\ active_scene_item = 1
    /\ ExclusiveView
    /\ RootOf(2) # NoLayer
    /\ ~layers[RootOf(2)].on

\* C6: an entry's ExternallyChanged flag is set only while the file's mtime
\* on disk exceeds the entry's last known mtime.
C6_FlagOnlyWhileNewer ==
    \A row \in Rows :
        scene_list[row].ext =>
            /\ file_timestamps[scene_list[row].path] # NoTime
            /\ fileMTime[scene_list[row].path] > file_timestamps[scene_list[row].path]

C6_Witness ==
    \E row \in Rows :
        /\ scene_list[row].ext
        /\ fileMTime[scene_list[row].path] > file_timestamps[scene_list[row].path]

\* C7: a stopped poller is eventually running again.
C7_PollerRestarts == (~timerActive) ~> timerActive

C7_Witness ==
    /\ ~timerActive
    /\ pendingShots = 0
    /\ lastOp = [op |-> "save", save |-> "raised"]

\* C8: while a batch loop is running the poller is stopped.
C8_PollerStoppedInBatch == batch.mode \in {"save", "reload"} => ~timerActive

C8_Witness ==
    /\ batch.mode = "reload"
    /\ batch.total = 2
    /\ Len(batch.queue) = 1

\* the values action_save_selected returns as False (lines 1320, 1341, 1468)
SaveFailures == {"noactive", "noroot", "empty"}

\* C11: a saveActive whose host save call fails returns a failure result
\* and records no new last known mtime; it reports success only when the
\* host wrote the file.
C11_FailedSaveReported ==
    [][lastOp'.op = "save" =>
          /\ lastOp'.save \in SaveFailures \cup {"ok"}
          /\ lastOp'.save \in SaveFailures => file_timestamps' = file_timestamps
          /\ lastOp'.save = "ok" =>
                /\ fileMTime'[ActiveFile] > fileMTime[ActiveFile]
                /\ file_timestamps'[ActiveFile] = fileMTime'[ActiveFile]]_vars

C11_Witness ==
    /\ lastOp = [op |-> "save", save |-> "raised"]
    /\ selection # {}
    /\ file_timestamps[ActiveFile] = fileMTime[ActiveFile]

(***************************************************************************)
(* SpecSave: saves that return False.  The user renames the active entry's *)
(* root layer in the host's layer explorer, which is how                   *)
(* getLayerFromName(layer_name) comes to find nothing at line 1336, or     *)
(* deletes the objects of the active entry, which leaves rt.selection      *)
(* empty at line 1428; a reload whose merge raises does the same.          *)
(***************************************************************************)
RenamedName == <<"Renamed">>

\* the host's layer explorer: the root layer of row gets another name
HostRenameRoot(s, row) ==
    [s EXCEPT !.layers =
        SetName(s.layers,
                GetLayerFromName(s.layers, <<s.scene_list[row].display>>),
                RenamedName),
              !.saveRequired = TRUE]

\* the host's viewport: the objects dead are deleted
HostDelete(s, dead) ==
    [s EXCEPT !.objects = DeleteObjects(s.objects, s.selection, dead).objects,
              !.selection = DeleteObjects(s.objects, s.selection, dead).selection,
              !.clipboard = ValidNodes(s.objects, s.clipboard, dead),
              !.saveRequired = TRUE]

RenameRoot ==
    /\ Ready
    /\ active_scene_item # 0
    /\ GetLayerFromName(layers, <<scene_list[active_scene_item].display>>) # NoLayer
    /\ ~HasLayer(RenamedName)
    /\ Becomes(HostRenameRoot(State, active_scene_item), "rename", "none")

\* the user deletes every object of the active entry
DeleteActiveObjects ==
    /\ Ready
    /\ active_scene_item # 0
    /\ TeardownObjects(layers, objects, scene_list[active_scene_item].display) # {}
    /\ Becomes(HostDelete(State,
                   TeardownObjects(layers, objects,
                                   scene_list[active_scene_item].display)),
               "delete", "none")

SaveContents ==
    {[f \in Files |-> IF f = PathA THEN Template(k, "A", "B")
                      ELSE Template(k, "B", "A")] : k \in {2, 4}}

InitSave == InitWith(SaveContents)
NextSave ==
    \/ FirstMerge(PollLists)
    \/ SwitchActive
    \/ SaveActive
    \/ RenameRoot
    \/ DeleteActiveObjects
    \/ TickOnChange
    \/ FireShot
    \/ TouchActive
SpecSave == InitSave /\ [][NextSave]_vars

\* C12: a saveActive that finds no root layer, or nothing to save, returns
\* failure, writes no file, records no mtime, leaves the layers and the
\* placement of the objects as they were, and the poller is resumed.
C12_NothingToSave ==
    [][(lastOp'.op = "save" /\ lastOp'.save \in {"noroot", "empty"}) =>
          /\ fileContent' = fileContent
          /\ fileMTime' = fileMTime
          /\ file_timestamps' = file_timestamps
          /\ layers' = layers
          /\ objects' = objects
          /\ timerActive' \/ pendingShots' > 0]_vars

C12_Witness ==
    /\ lastOp = [op |-> "save", save |-> "noroot"]
    /\ HasLayer(RenamedName)
    /\ timerActive

\* the last row of a non-empty sequence of rows
LastOf(q) == q[Len(q)]
\* the files other than the file of row are as they were
OtherFilesKept(row) ==
    \A f \in Files \ {scene_list[row].path} :
        fileContent'[f] = fileContent[f] /\ fileMTime'[f] = fileMTime[f]

\* C13: batchSave with no conflicting entry takes the green-marked entries
\* in list order; each turn makes the next marked entry active and saves
\* it, no other file is written, every marked entry gets its turn, and the
\* last marked entry is the active one when the loop is over.
C13_BatchSaveInOrder ==
    /\ [][(batch.mode = "idle" /\ batch'.mode = "save"
              /\ ConflictRows(scene_list) = <<>>)
            => batch'.queue = GreenRows(scene_list)]_vars
    /\ [][batch.mode = "save" =>
            /\ active_scene_item' = Head(batch.queue)
            /\ OtherFilesKept(Head(batch.queue))
            /\ Tail(batch.queue) # <<>> =>
                  batch'.mode = "save" /\ batch'.queue = Tail(batch.queue)
            /\ batch'.mode # "save" =>
                  active_scene_item' = LastOf(GreenRows(scene_list))]_vars

C13_Witness ==
    /\ batch.mode = "dialog"
    /\ batch.total = 2
    /\ batch.saved = 2
    /\ active_scene_item = 2

\* C14: the count reported when the batch is over is the number of marked
\* entries whose save succeeded.
C14_ReportedCount == batch.mode = "dialog" => batch.total = batch.saved

C14_Witness ==
    /\ batch.mode = "dialog"
    /\ batch.total = 2
    /\ batch.saved = 1

\* C15: when a green-marked entry carries ExternallyChanged, "Cancel"
\* changes nothing, "Overwrite" queues every green-marked entry for the
\* save loop, and "Reload All" queues exactly the conflicting entries,
\* reloads one per turn, writes no file, and leaves no marked entry with
\* ExternallyChanged set.
C15_BatchConflict ==
    /\ [](ConflictRows(scene_list) # <<>> =>
             ActionBatchSave(State, "Cancel") = State)
    /\ [][(batch.mode = "idle" /\ batch'.mode = "save") =>
             /\ batch'.queue = GreenRows(scene_list)
             /\ fileContent' = fileContent /\ fileMTime' = fileMTime]_vars
    /\ [][(batch.mode = "idle" /\ batch'.mode = "reload") =>
             /\ batch'.queue = ConflictRows(scene_list)
             /\ batch'.queue # <<>>]_vars
    /\ [][batch.mode = "reload" =>
             /\ fileContent' = fileContent /\ fileMTime' = fileMTime
             /\ ~scene_list'[Head(batch.queue)].ext
             /\ batch'.queue = Tail(batch.queue)
             /\ batch'.mode = IF Tail(batch.queue) = <<>> THEN "idle" ELSE "reload"
             /\ batch'.mode = "idle" => ConflictRows(scene_list') = <<>>]_vars

C15_Witness ==
    /\ batch.mode = "reload"
    /\ batch.total = 2
    /\ batch.queue = <<2>>
    /\ ~scene_list[1].ext
    /\ scene_list[2].ext
    /\ active_scene_item = 1
    /\ timerActive

(***************************************************************************)
(* SpecDetect: change detection.  The check box "Disable changes           *)
(* detection" is created checked and hidden (lines 190-192), so its state  *)
(* changes only when a script of the host calls setChecked; stateChanged   *)
(* then runs check_dirty_status (line 193).  The user edits the scene in   *)
(* the host, which sets the flag rt.getSaveRequired() reads.               *)
(***************************************************************************)
\* disable_detection_cb.stateChanged (line 193)
DetectionChanged(s) ==
    CheckDirtyStatus([s EXCEPT !.disable_detection = ~s.disable_detection])

ToggleDetection ==
    /\ Idle
    /\ Becomes(DetectionChanged(State), "detect", "none")

\* an edit of the scene in the host
HostEdit ==
    /\ Idle
    /\ active_scene_item # 0
    /\ ~saveRequired
    /\ Becomes([State EXCEPT !.saveRequired = TRUE], "edit", "none")

\* double click on the row of the active entry (line 1134)
ClickActive ==
    /\ Ready
    /\ active_scene_item # 0
    /\ Returns(SwitchToSceneLayer(State, active_scene_item, "Cancel", TRUE),
               "switch", TRUE)

NextDetect ==
    \/ FirstMerge(PollLists)
    \/ SwitchActive
    \/ ClickActive
    \/ SaveActive
    \/ HostEdit
    \/ ToggleDetection
    \/ FireShot
SpecDetect == Init /\ [][NextDetect]_vars
\* a single shot that is due is run by the event loop
FairDetect == SpecDetect /\ WF_vars(FireShot)

\* SpecDirty: the same with the ticks of the timer
NextDirty == NextDetect \/ Tick
SpecDirty == Init /\ [][NextDirty]_vars

\* C16: a switch answered "Don't Save" makes the target the active entry,
\* writes no file and records no mtime, and the host's dirty flag is
\* cleared afterwards by the force-clean.
C16_DiscardSwitch ==
    /\ [][lastOp' = [op |-> "switch", save |-> "discard"] =>
            /\ active_scene_item' # active_scene_item
            /\ active_scene_item' \in Rows
            /\ scene_list'[active_scene_item'].bold
            /\ fileContent' = fileContent
            /\ fileMTime' = fileMTime
            /\ file_timestamps' = file_timestamps]_vars
    /\ (lastOp = [op |-> "switch", save |-> "discard"]) ~> ~saveRequired

C16_Witness ==
    /\ lastOp = [op |-> "switch", save |-> "discard"]
    /\ ~disable_detection
    /\ saveRequired
    /\ pendingShots = 2
    /\ active_scene_item = 2

\* C17: a switch to the entry that is active already changes nothing, and
\* a switch answered "Cancel" leaves the active entry, the layers, the
\* host's dirty flag, the last known mtimes and the files as they were,
\* with the poller running.
C17_SwitchAborted ==
    /\ [][lastOp' = [op |-> "switch", save |-> "same"] =>
            UNCHANGED <<fileContent, fileMTime, layers, objects, selection,
                        clipboard, saveRequired, scene_list, active_scene_item,
                        file_timestamps, timerActive, pendingShots, is_ui_dirty,
                        disable_detection, save_btn_marked,
                        background_check_counter, batch>>]_vars
    /\ [][lastOp' = [op |-> "switch", save |-> "cancel"] =>
            /\ UNCHANGED <<fileContent, fileMTime, layers, objects, selection,
                           clipboard, saveRequired, scene_list, active_scene_item,
                           file_timestamps, pendingShots, is_ui_dirty,
                           disable_detection, save_btn_marked,
                           background_check_counter, batch>>
            /\ timerActive']_vars

C17_Witness ==
    /\ lastOp = [op |-> "switch", save |-> "cancel"]
    /\ ~disable_detection
    /\ saveRequired
    /\ timerActive

\* SpecPrompt: the prompt of the poller.  Ticks are taken when the active
\* entry's file has changed on disk; any of the files may be written by
\* another program.
NextPrompt ==
    \/ FirstMerge(PollLists)
    \/ SwitchActive
    \/ SaveActive
    \/ TickOnChange
    \/ FireShot
    \/ ExternalTouch(Files)
SpecPrompt == Init /\ [][NextPrompt]_vars

\* a tick of the timer: check_modifications counts it (line 401)
TickStep == background_check_counter' # background_check_counter
\* the file f is newer on disk than the mtime recorded for it
NewerOnDisk(f) ==
    file_timestamps[f] # NoTime /\ fileMTime[f] > file_timestamps[f]

C19_IgnoreAdopts ==
    /\ [][(ExternalChangeSeen(State) /\ TickStep /\ lastOp' = NoOp) =>
            /\ file_timestamps' =
                  [file_timestamps EXCEPT ![ActiveFile] = fileMTime[ActiveFile]]
            /\ UNCHANGED <<layers, objects, selection, fileContent, fileMTime,
                           active_scene_item, saveRequired>>
            /\ timerActive'
            /\ ~NewerOnDisk(ActiveFile)']_vars
    /\ [][\A f \in Files :
            (~NewerOnDisk(f) /\ NewerOnDisk(f)') =>
                fileMTime'[f] > fileMTime[f]]_vars

C19_Witness ==
    /\ lastOp = NoOp
    /\ active_scene_item # 0
    /\ fileMTime[ActiveFile] > 0
    /\ file_timestamps[ActiveFile] = fileMTime[ActiveFile]
    /\ fileContent[ActiveFile] = TplProps(scene_list[active_scene_item].display)
    /\ timerActive
    /\ ~saveRequired
    /\ savedTree = NoTree
    /\ active_scene_item = 1

\* SpecStar: the dirty marker with the files written by other programs
NextStar == NextDirty \/ TouchActive
SpecStar == Init /\ [][NextStar]_vars

MergeContents ==
    {[f \in Files |-> IF f = PathA THEN Template(k, "A", "B")
                      ELSE Template(k, "B", "A")] : k \in {2, 5}}
InitMerge == InitWith(MergeContents)
NextMerge ==
    \/ MergeAll(TreeLists)
    \/ ToggleAll
    \/ ToggleDetection
    \/ HostEdit
    \/ Tick
    \/ FireShot
    \/ ExternalTouch({PathB})
SpecMerge == InitMerge /\ [][NextMerge]_vars

\* the paths of the rows, in list order
ListPaths(list) == [i \in DOMAIN list |-> list[i].path]

\* C21: a mergeAll that completes leaves one entry per path in the given
\* order, the first entry active with its root layer visible and current,
\* every other root layer hidden, no entry marked or flagged, and it asks
\* nothing: no file is written on the way.
C21_MergeAllResult ==
    [][lastOp'.op = "merge" =>
          /\ ListPaths(scene_list') = merged'
          /\ merged' # <<>>
          /\ active_scene_item' = 1
          /\ scene_list'[1].bold
          /\ \A row \in DOMAIN scene_list' :
                LET root == GetLayerFromName(layers', <<scene_list'[row].display>>)
                IN  /\ root # NoLayer
                    /\ layers'[root].on = (row = 1)
                    /\ layers'[root].current = (row = 1)
                    /\ ~scene_list'[row].cyan
                    /\ ~scene_list'[row].green
                    /\ ~scene_list'[row].ext
          /\ fileContent' = fileContent
          /\ fileMTime' = fileMTime]_vars

C21_Witness ==
    /\ lastOp.op = "merge"
    /\ merged = <<PathB, PathA>>
    /\ is_ui_dirty
    /\ ~disable_detection
    /\ layers[GetLayerFromName(layers, <<"B">>)].on
    /\ ~layers[GetLayerFromName(layers, <<"A">>)].on

(***************************************************************************)
(* SpecFrame: the handlers of the panel over one list: a merge and a merge *)
(* that finds nothing, switches, saves, the batch save, the markers, and   *)
(* the ticks that find the active entry's file changed.                    *)
(***************************************************************************)
NextFrame ==
    \/ FirstMerge(PollLists)
    \/ MergeNothing
    \/ SwitchActive
    \/ SaveActive
    \/ ToggleGreen
    \/ BatchStart
    \/ BatchSaveTurn
    \/ BatchEnd
    \/ TickOnChange
    \/ FireShot
    \/ TouchActive
SpecFrame == Init /\ [][NextFrame]_vars

\* C22: a step that adds, removes or reorders an entry is a step of
\* mergeAll; and a mergeAll that finds no file to merge leaves the entries
\* and the host scene as they are.
C22_EntriesOnlyByMerge ==
    /\ [][ListPaths(scene_list') # ListPaths(scene_list)
            => MergeAll(TreeLists)]_vars
    /\ [][MergeNothing =>
            UNCHANGED <<scene_list, active_scene_item, file_timestamps, layers,
                        objects, selection, clipboard, saveRequired,
                        fileContent, fileMTime>>]_vars

C22_Witness ==
    /\ active_scene_item = 2
    /\ scene_list[1].green
    /\ ListPaths(scene_list) = <<PathA, PathB>>
    /\ lastOp.op = "tick_reload"
    /\ fileMTime[PathB] > fileMTime[PathA]
    /\ fileMTime[PathA] > 0


\* name, parent's name and visibility of the layers in S
LayerFacts(L, S) ==
    {<<L[i].name,
       IF L[i].parent = NoLayer THEN NoParentName ELSE L[L[i].parent].name,
       L[i].on>> : i \in S}
\* the objects on a layer of S, each with the name of its layer
ObjectFacts(L, O, S) ==
    {<<o, O[o].name, L[O[o].layer].name>> : o \in {x \in DOMAIN O : O[x].layer \in S}}
NamedObjects(facts) == {<<f[2], f[3]>> : f \in facts}
\* the subtree of the entry in row r of s
EntryTree(s, r) ==
    SubtreeOf(s.layers, GetLayerFromName(s.layers, <<s.scene_list[r].display>>))
\* a list item without its ExternallyChanged flag
Unflagged(item) == [item EXCEPT !.ext = FALSE]

\* the step from pre to post leaves every entry but the one in row as it is,
\* and every layer and object outside the subtree of row in place
ReloadKeepsOthers(pre, post, row) ==
    /\ ListPaths(post.scene_list) = ListPaths(pre.scene_list)
    /\ \A r \in DOMAIN pre.scene_list \ {row} :
          /\ Unflagged(post.scene_list[r]) = Unflagged(pre.scene_list[r])
          /\ post.file_timestamps[pre.scene_list[r].path]
                = pre.file_timestamps[pre.scene_list[r].path]
          /\ LayerFacts(post.layers, EntryTree(post, r))
                = LayerFacts(pre.layers, EntryTree(pre, r))
          /\ Cardinality(ObjectFacts(post.layers, post.objects, EntryTree(post, r)))
                = Cardinality(ObjectFacts(pre.layers, pre.objects, EntryTree(pre, r)))
          /\ NamedObjects(ObjectFacts(post.layers, post.objects, EntryTree(post, r)))
                = NamedObjects(ObjectFacts(pre.layers, pre.objects, EntryTree(pre, r)))
    /\ LayerFacts(pre.layers, DOMAIN pre.layers \ EntryTree(pre, row))
          \subseteq LayerFacts(post.layers, DOMAIN post.layers)
    /\ NamedObjects(ObjectFacts(pre.layers, pre.objects,
                                DOMAIN pre.layers \ EntryTree(pre, row)))
          \subseteq NamedObjects(ObjectFacts(post.layers, post.objects,
                                             DOMAIN post.layers))

\* the entry in row has been reloaded: flag cleared, mtime on disk recorded
Reloaded(post, row) ==
    /\ ~post.scene_list[row].ext
    /\ post.file_timestamps[post.scene_list[row].path]
          = post.fileMTime[post.scene_list[row].path]

\* C23: a reload leaves every other entry as it is (layers, objects, last
\* known mtime, markers, flag, position) and deletes nothing outside the
\* reloaded entry's subtree; afterwards the reloaded entry's flag is clear
\* and its last known mtime is the mtime on disk.
C23_ReloadFrame ==
    /\ [][lastOp'.op \in {"tick_reload", "tick_reload_raise"} =>
            /\ ReloadKeepsOthers(State, State', active_scene_item)
            /\ Reloaded(State', active_scene_item)
            /\ background_check_counter' # 0 =>
                  \A r \in Rows : r # active_scene_item =>
                      scene_list'[r].ext = scene_list[r].ext]_vars
    /\ [][batch.mode = "reload" =>
            /\ ReloadKeepsOthers(PerformSceneSwitch(State, Head(batch.queue)),
                                 State', Head(batch.queue))
            /\ Reloaded(State', Head(batch.queue))
            /\ \A r \in Rows : r # Head(batch.queue) =>
                  scene_list'[r].ext = scene_list[r].ext]_vars

C23_Witness ==
    /\ lastOp.op = "tick_reload"
    /\ active_scene_item = 2
    /\ file_timestamps[PathB] = fileMTime[PathB]
    /\ fileMTime[PathB] > 0
    /\ ~scene_list[2].ext
    /\ scene_list[1].ext


\* the rows of the list whose subtree holds layer i
OwnersOf(i) == {r \in DOMAIN scene_list : i \in EntryTree(State, r)}

\* C24: in every reachable state every object is on exactly one layer of the
\* scene, and every layer is either the default layer "0" or in the subtree
\* of exactly one entry of the list.
C24_EveryLayerOwned ==
    /\ \A o \in DOMAIN objects : objects[o].layer \in DOMAIN layers
    /\ \A i \in DOMAIN layers :
          IF layers[i].name = DefaultName
          THEN OwnersOf(i) = {}
          ELSE Cardinality(OwnersOf(i)) = 1

C24_Witness ==
    /\ Len(scene_list) = 2
    /\ \E i \in DOMAIN layers :
          /\ layers[i].name = <<"0", "A">>
          /\ layers[i].parent = NoLayer
          /\ OwnersOf(i) = {}
          /\ \E o \in DOMAIN objects : objects[o].layer = i


(***************************************************************************)
(* Material names.  A name is a sequence of pieces; "." and "Duplicate"    *)
(* are pieces of their own, so that ".Duplicate." occurs in a name exactly *)
(* where the three pieces ".", "Duplicate", "." follow one another.        *)
(***************************************************************************)
MaxNameLen == 3     \* pieces in the name a material has in its file
MaxMaterials == 1   \* materials in the scene
HexLen == 8         \* uuid.uuid4().hex[:8]
HexDigits == {"0", "f"}
NamePieces == {".", "Duplicate", "Wood", "0"}
MaterialNames == UNION {[1..n -> NamePieces] : n \in 0..MaxNameLen}
HexStrings == [1..HexLen -> HexDigits]

DuplicateMark == <<".", "Duplicate", ".">>
\* generate_unique_suffix, for the hex digits uuid4 drew
GenerateUniqueSuffix(hex) == DuplicateMark \o hex

\* ".Duplicate." starts at position at of name
MarkAt(name, at) ==
    /\ at + Len(DuplicateMark) - 1 <= Len(name)
    /\ SubSeq(name, at, at + Len(DuplicateMark) - 1) = DuplicateMark
\* ".Duplicate." in mat_name
HasMark(name) == \E at \in 1..Len(name) : MarkAt(name, at)
\* mat_name.split(".Duplicate.")[0]
SplitHead(name) ==
    LET first == CHOOSE at \in 1..Len(name) :
                     MarkAt(name, at) /\ \A b \in 1..(at - 1) : ~MarkAt(name, b)
    IN  SubSeq(name, 1, first - 1)
\* the name clean_up_material_names gives a material
CleanName(name) == IF HasMark(name) THEN SplitHead(name) ELSE name
CleanUpMaterialNames(mats) ==
    [m \in DOMAIN mats |-> [mats[m] EXCEPT !.name = CleanName(mats[m].name)]]

\* a step of the material names alone
MaterialsBecome(mats) ==
    /\ sceneMaterials' = mats
    /\ lastOp' = NoOp
    /\ UNCHANGED <<savedTree, merged>>
    /\ UNCHANGED <<fileContent, fileMTime, layers, objects, selection, clipboard,
                   saveRequired, scene_list, active_scene_item,
                   file_timestamps, timerActive, pendingShots, is_ui_dirty,
                   disable_detection, save_btn_marked,
                   background_check_counter, batch>>

\* a merge brings a material named n; import_single_scene appends the suffix
\* (history: merged_as is the name in the file, suffix the digits drawn)
MergeMaterial ==
    /\ Len(sceneMaterials) < MaxMaterials
    /\ \E n \in MaterialNames, hex \in HexStrings :
         MaterialsBecome(Append(sceneMaterials,
                                [name |-> n \o GenerateUniqueSuffix(hex),
                                 merged_as |-> n, suffix |-> hex]))
\* the user creates a material named n in the host
HostMaterial ==
    /\ Len(sceneMaterials) < MaxMaterials
    /\ \E n \in MaterialNames :
         MaterialsBecome(Append(sceneMaterials,
                                [name |-> n, merged_as |-> n, suffix |-> <<>>]))
\* clean_up_material_names runs
CleanUpMaterials ==
    /\ sceneMaterials # <<>>
    /\ MaterialsBecome(CleanUpMaterialNames(sceneMaterials))

NextMaterial == MergeMaterial \/ HostMaterial \/ CleanUpMaterials
SpecMaterial == Init /\ [][NextMaterial]_vars

\* C25: for a material whose name in the file does not contain ".Duplicate.",
\* the cleanup gives back exactly that name after the suffix was appended,
\* and the cleanup leaves a name without ".Duplicate." as it is.
C25_SuffixRoundTrip ==
    [][CleanUpMaterials =>
          \A m \in DOMAIN sceneMaterials :
              /\ ~HasMark(sceneMaterials[m].merged_as) =>
                    sceneMaterials'[m].name = sceneMaterials[m].merged_as
              /\ ~HasMark(sceneMaterials[m].name) =>
                    sceneMaterials'[m].name = sceneMaterials[m].name]_vars

C25_Witness ==
    /\ sceneMaterials # <<>>
    /\ sceneMaterials[1].merged_as = <<"Wood", ".", "Duplicate">>
    /\ sceneMaterials[1].suffix # <<>>
    /\ sceneMaterials[1].name = <<"Wood">>


(***************************************************************************)
(* The clipboard: one object in A.max and none in B.max, so that Paste has *)
(* room.                                                                   *)
(***************************************************************************)
\* a file without objects
TplEmpty == [layers |-> <<>>, objs |-> <<>>]
ClipContents ==
    {[f \in Files |-> IF f = PathA THEN TplPlain("A") ELSE TplEmpty]}
InitClip == InitWith(ClipContents)
NextClip ==
    \/ FirstMerge(PollLists)
    \/ UserSelectMore
    \/ Copy
    \/ Paste
    \/ DeleteActiveObjects
    \/ SwitchActive
    \/ FireShot
SpecClip == InitClip /\ [][NextClip]_vars

\* the objects the references refs stand for, as a bag of records
RecordsOf(O, refs) == {O[o] : o \in refs}
CountOf(O, refs, rec) == Cardinality({o \in refs : O[o] = rec})
ActiveRoot ==
    GetLayerFromName(layers, <<scene_list[active_scene_item].display>>)

Prompted ==
    /\ TickStep
    /\ active_scene_item # 0
    /\ \/ lastOp'.op \in {"tick_reload", "tick_reload_raise"}
       \/ file_timestamps'[ActiveFile] # file_timestamps[ActiveFile]

\* C27: a successful save leaves the mtime it produced recorded for the
\* entry; a tick prompts for a file, or flags its entry, only while the
\* file is newer on disk than the recorded mtime; and a file becomes newer
\* than the recorded mtime only by a write that is not the panel's save.
C27_OwnSaveNotExternal ==
    /\ [][lastOp' = [op |-> "save", save |-> "ok"] =>
            /\ fileMTime'[ActiveFile] > fileMTime[ActiveFile]
            /\ file_timestamps'[ActiveFile] = fileMTime'[ActiveFile]
            /\ \A f \in Files : NewerOnDisk(f)' => NewerOnDisk(f)]_vars
    /\ [][Prompted => NewerOnDisk(ActiveFile)]_vars
    /\ [][\A r \in DOMAIN scene_list :
            (TickStep /\ ~scene_list[r].ext /\ scene_list'[r].ext) =>
                NewerOnDisk(scene_list[r].path)]_vars
    /\ [][\A f \in Files :
            (file_timestamps[f] # NoTime /\ ~NewerOnDisk(f) /\ NewerOnDisk(f)') =>
                /\ fileMTime'[f] > fileMTime[f]
                /\ fileContent' = fileContent
                /\ file_timestamps' = file_timestamps]_vars

C27_Witness ==
    /\ lastOp = NoOp
    /\ Len(scene_list) = 2
    /\ savedTree.row = 1
    /\ active_scene_item = 1
    /\ background_check_counter = 0
    /\ file_timestamps[PathA] = fileMTime[PathA]
    /\ fileMTime[PathA] = 1
    /\ fileMTime[PathB] = 2
    /\ scene_list[2].ext
    /\ ~scene_list[1].ext


\* the objects on the layers of the active entry's subtree
ActiveObjects ==
    {o \in DOMAIN objects : objects[o].layer \in EntryTree(State, active_scene_item)}
\* the names of the objects a file holds
FileObjectNames(f) == {fileContent[f].objs[k].name : k \in DOMAIN fileContent[f].objs}

\* C28: the objects a successful save hands to the host, which the file
\* then holds, are the objects on the active entry's root layer and its
\* descendants when the save starts: none of another entry or of the
\* default layer, and every one of the subtree.
C28_SavedObjects ==
    [][lastOp' = [op |-> "save", save |-> "ok"] =>
          /\ Len(fileContent'[ActiveFile].objs) = Cardinality(ActiveObjects)
          /\ FileObjectNames(ActiveFile)' = {objects[o].name : o \in ActiveObjects}
          /\ \A o \in DOMAIN objects \ ActiveObjects :
                \/ objects[o].name \notin FileObjectNames(ActiveFile)'
                \/ \E mine \in ActiveObjects : objects[mine].name = objects[o].name
          /\ objects' = objects]_vars

C28_Witness ==
    /\ lastOp = [op |-> "save", save |-> "ok"]
    /\ active_scene_item = 2
    /\ Len(objects) = 4
    /\ Len(fileContent[PathB].objs) = 2
    /\ FileObjectNames(PathB) = {<<"B", 1>>, <<"B", 2>>}
    /\ fileMTime[PathA] = 1
    /\ fileMTime[PathB] = 2


\* the layer names of the scene when the file of row r is merged: layers
\* are created in list order, the root of r first
SnapshotNames(r) == {layers[i].name : i \in 1..RootOf(r)}
\* the layers of the file of row r whose name the snapshot does not hold
NewFileLayers(r) ==
    {k \in DOMAIN fileContent[scene_list[r].path].layers :
        fileContent[scene_list[r].path].layers[k].name \notin SnapshotNames(r)}

\* the layers created while the file of row r was merged
CreatedFor(r) ==
    {j \in DOMAIN layers :
        /\ j > RootOf(r)
        /\ r < Len(scene_list) => j < RootOf(r + 1)}

\* C29: after a merge, every layer a file brought under a name the scene
\* did not hold carries the suffix of its entry, has the parent it had in
\* the file if that parent is new as well and the entry's root otherwise,
\* and is a descendant of the entry's root.
C29_NewLayersUnderRoot ==
    MergeCompleted =>
        \A r \in Rows :
            LET display == scene_list[r].display
                file == fileContent[scene_list[r].path]
            IN  \A k \in NewFileLayers(r) :
                    LET i == GetLayerFromName(layers, Suffixed(file.layers[k].name, display))
                        nested == \E p \in NewFileLayers(r) :
                                      file.layers[p].name = file.layers[k].parent
                    IN  /\ i \in CreatedFor(r)
                        /\ \A j \in CreatedFor(r) :
                              layers[j].name # file.layers[k].name
                        /\ layers[i].parent =
                              IF nested
                              THEN GetLayerFromName(layers,
                                       Suffixed(file.layers[k].parent, display))
                              ELSE RootOf(r)
                        /\ i \in SubtreeOf(layers, RootOf(r))

C29_Witness ==
    /\ MergeCompleted
    /\ Len(scene_list) = 2
    /\ HasLayer(<<"Props">>)
    /\ HasLayer(<<"Props", "A", "A">>)
    /\ ~HasLayer(<<"Props", "A">>)
    /\ layers[GetLayerFromName(layers, <<"Props">>)].parent = RootOf(1)


\* the objects of the scene on the layer named name
ObjectsOn(L, O, name) == {o \in DOMAIN O : L[O[o].layer].name = name}
\* the objects the file holds on its layer named name
FileNodesOn(file, name) == {k \in DOMAIN file.objs : file.objs[k].layer = name}
\* the merged objects of the file's layer named name are on the layer
\* "<name> (<display>)" under root, and nothing else is
MovedOff(L, O, file, name, display, root) ==
    LET unique_layer == GetLayerFromName(L, Suffixed(name, display))
    IN  /\ unique_layer # NoLayer
        /\ L[unique_layer].parent = root
        /\ Cardinality(ObjectsOn(L, O, Suffixed(name, display)))
              = Cardinality(FileNodesOn(file, name))
        /\ {O[o].name : o \in ObjectsOn(L, O, Suffixed(name, display))}
              = {file.objs[k].name : k \in FileNodesOn(file, name)}

\* C30: when a file holds objects on a layer whose name the scene holds
\* before the merge (other than "0"), the merged objects, and only they,
\* are on "<name> (<display>)" under the root of the merge afterwards, and
\* the layer that was there keeps its name, parent, visibility and objects.
C30_ExistingLayerKept ==
    /\ [][lastOp'.op = "merge" =>
            \A r \in DOMAIN scene_list' :
                LET display == scene_list'[r].display
                    file == fileContent[scene_list'[r].path]
                    root == GetLayerFromName(layers', <<display>>)
                    before == {layers'[i].name : i \in 1..root} \ {DefaultName}
                IN  \A k \in DOMAIN file.layers :
                       (file.layers[k].name \in before
                           /\ FileNodesOn(file, file.layers[k].name) # {}) =>
                          /\ MovedOff(layers', objects', file, file.layers[k].name,
                                      display, root)
                          /\ \A o \in ObjectsOn(layers', objects', file.layers[k].name) :
                                \A j \in DOMAIN file.objs :
                                    objects'[o].name # file.objs[j].name]_vars
    /\ [][lastOp'.op = "tick_reload" =>
            LET r == active_scene_item
                display == scene_list[r].display
                file == fileContent[scene_list[r].path]
                kept == DOMAIN layers \ EntryTree(State, r)
                before == {layers[i].name : i \in kept} \ {DefaultName}
            IN  \A k \in DOMAIN file.layers :
                   (file.layers[k].name \in before
                       /\ FileNodesOn(file, file.layers[k].name) # {}) =>
                      LET was == GetLayerFromName(layers, file.layers[k].name)
                          is == GetLayerFromName(layers', file.layers[k].name)
                      IN  /\ MovedOff(layers', objects', file, file.layers[k].name,
                                      display, GetLayerFromName(layers', <<display>>))
                          /\ is # NoLayer
                          /\ LayerFacts(layers', {is}) = LayerFacts(layers, {was})
                          /\ Cardinality(ObjectsOn(layers', objects', file.layers[k].name))
                                = Cardinality(ObjectsOn(layers, objects, file.layers[k].name))
                          /\ {objects'[o].name :
                                 o \in ObjectsOn(layers', objects', file.layers[k].name)}
                                = {objects[o].name :
                                     o \in ObjectsOn(layers, objects, file.layers[k].name)}]_vars

C30_Witness ==
    /\ lastOp.op = "tick_reload"
    /\ active_scene_item # 0
    /\ scene_list[active_scene_item].display = "A"
    /\ HasLayer(<<"B">>)
    /\ HasLayer(<<"B", "A">>)
    /\ layers[GetLayerFromName(layers, <<"B", "A">>)].parent = NoLayer
    /\ Cardinality(ObjectsOn(layers, objects, <<"B", "A">>)) = 2


\* the file's objects kept on its default layer, by name
FileDefaultNames(file) ==
    {file.objs[k].name : k \in {j \in DOMAIN file.objs : file.objs[j].layer = DefaultName}}
\* the objects among objs that carry one of the names are all on the layer
\* "0 (<display>)", which is under root
OnLayer0Of(L, O, objs, names, display, root) ==
    \A o \in objs :
        /\ O[o].layer # 1
        /\ O[o].name \in names =>
              /\ L[O[o].layer].name = Suffixed(DefaultName, display)
              /\ L[O[o].layer].parent = root
\* the objects the last merge of the file appended to the scene
LastMerged(O, file) == (Len(O) - Len(file.objs) + 1)..Len(O)

\* C31: after a merge no object it brought is on the default layer "0":
\* those the file keeps there are on "0 (<display>)" under the root of the
\* merge; and the default layer keeps its name and place in every state.
C31_DefaultLayerFree ==
    /\ [](/\ layers[1].name = DefaultName
          /\ layers[1].parent = NoLayer
          /\ \A i \in DOMAIN layers : layers[i].name = DefaultName => i = 1)
    /\ [][lastOp'.op = "merge" =>
            \A r \in DOMAIN scene_list' :
                LET file == fileContent[scene_list'[r].path]
                    display == scene_list'[r].display
                IN  /\ OnLayer0Of(layers', objects',
                                  {o \in DOMAIN objects' :
                                      objects'[o].name \in
                                         {file.objs[k].name : k \in DOMAIN file.objs}},
                                  FileDefaultNames(file), display,
                                  GetLayerFromName(layers', <<display>>))
                    /\ \A n \in FileDefaultNames(file) :
                          \E o \in DOMAIN objects' : objects'[o].name = n]_vars
    /\ [][lastOp'.op = "tick_reload" =>
            LET file == fileContent[ActiveFile]
                display == scene_list[active_scene_item].display
            IN  /\ Len(objects') >= Len(file.objs)
                /\ {objects'[o].name : o \in LastMerged(objects', file)}
                      = {file.objs[k].name : k \in DOMAIN file.objs}
                /\ OnLayer0Of(layers', objects', LastMerged(objects', file),
                              FileDefaultNames(file), display,
                              GetLayerFromName(layers', <<display>>))]_vars

C31_Witness ==
    /\ lastOp.op = "tick_reload"
    /\ active_scene_item = 2
    /\ fileContent[PathB] = TplProps("B")
    /\ \E o \in DOMAIN objects :
          /\ objects[o].name = <<"B", 2>>
          /\ layers[objects[o].layer].name = <<"0", "B">>
          /\ layers[objects[o].layer].parent = GetLayerFromName(layers, <<"B">>)
    /\ \E o \in DOMAIN objects : objects[o].layer = 1


\* the scene as rt.saveNodes sees it when the active entry is saved
AtHostSave ==
    SaveExtract(layers, objects, <<scene_list[active_scene_item].display>>,
                DisplayNameOf(scene_list[active_scene_item].path))
\* the layers below the root of the active entry
ActiveDescendants ==
    LET root == GetLayerFromName(layers, <<scene_list[active_scene_item].display>>)
    IN  SeqRange(CollectDescendants(layers, GetChildren(layers, root)))
\* a save that reaches the host call has run in this step
SaveStep == lastOp'.op = "save" /\ active_scene_item # 0 /\ AtHostSave.nodes # {}

\* C32: when saveActive calls the host save, every layer of the subtree that
\* was a child of the root has no parent, "0 (<display>)" included; every
\* layer name ending in the suffix is stripped of it, except that of
\* "0 (<display>)"; and every object that was on "0 (<display>)" or on the
\* root is on the default layer.
C32_StrippedAtSave ==
    [][SaveStep =>
         LET display == scene_list[active_scene_item].display
             root == GetLayerFromName(layers, <<display>>)
             x == AtHostSave
         IN  /\ \A i \in ActiveDescendants :
                   /\ layers[i].parent = root => x.layers[i].parent = NoLayer
                   /\ EndsWithSuffix(layers[i].name, display) =>
                         x.layers[i].name =
                            IF layers[i].name = Suffixed(DefaultName, display)
                            THEN layers[i].name ELSE StripSuffix(layers[i].name)
             /\ \A o \in DOMAIN objects :
                   (/\ objects[o].layer \in ActiveDescendants \cup {root}
                    /\ layers[objects[o].layer].name
                          \in {Suffixed(DefaultName, display), <<display>>})
                   => x.objects[o].layer = 1
             /\ lastOp'.save = "raised" => layers' = x.layers /\ objects' = x.objects]_vars

\* a save of an entry whose file keeps its objects on layer "0" has reached
\* the host call: "0 (A)" is still a child of the root "A"
C32_Witness ==
    /\ lastOp.op = "save"
    /\ lastOp.save = "raised"
    /\ active_scene_item = 1
    /\ scene_list[1].display = "A"
    /\ \E i \in DOMAIN layers :
          /\ layers[i].name = <<"0", "A">>
          /\ layers[i].parent = GetLayerFromName(layers, <<"A">>)
          /\ layers[i].parent # NoLayer
    /\ \E o \in DOMAIN objects : objects[o].layer = 1


\* the objects of O with the names of their layers, in the host's order
NodesByLayerName(L, O) ==
    [o \in DOMAIN O |-> [name |-> O[o].name, layer |-> L[O[o].layer].name]]
\* the scene pre after the teardown of the subtree of the entry in row: the
\* layers are deleted children first, nothing of the subtree is left and
\* everything else is
TornDown(pre, row) ==
    LET root == GetLayerFromName(pre.layers, <<pre.scene_list[row].display>>)
        layers_to_clean == CollectLayers(pre.layers, root)
        sub == SeqRange(layers_to_clean)
        outside == SortedSeq({o \in DOMAIN pre.objects : pre.objects[o].layer \notin sub})
        t == Teardown(pre.layers, pre.objects, pre.selection,
                      pre.scene_list[row].display)
    IN  root # NoLayer =>
          /\ \A a, b \in DOMAIN layers_to_clean :
                layers_to_clean[a] \in AncestorsOf(pre.layers, layers_to_clean[b])
                => a < b
          /\ {t.layers[k].name : k \in DOMAIN t.layers}
                = {pre.layers[i].name : i \in DOMAIN pre.layers \ sub}
          /\ NodesByLayerName(t.layers, t.objects)
                = [k \in DOMAIN outside |->
                      NodesByLayerName(pre.layers, pre.objects)[outside[k]]]

\* C33: the teardown before a reload deletes the objects of the subtree,
\* then its layers, each after its descendants; afterwards no layer or
\* object of the subtree is left, the root included, and every layer and
\* object outside the subtree is.
C33_TeardownComplete ==
    /\ [][lastOp'.op \in {"tick_reload", "tick_reload_raise"} =>
            TornDown(State, active_scene_item)]_vars
    /\ [][batch.mode = "reload" =>
            TornDown(PerformSceneSwitch(State, Head(batch.queue)),
                     Head(batch.queue))]_vars

\* the active entry has been reloaded with its root as the current layer
C33_Witness ==
    /\ lastOp.op = "tick_reload"
    /\ active_scene_item = 1
    /\ layers[GetLayerFromName(layers, <<"A">>)].current
    /\ \E o \in DOMAIN objects : objects[o].name = <<"A", 1>>


\* the tick of this step is the one that runs the sweep
SweepStep == TickStep /\ background_check_counter + 1 = BackgroundEvery

MergedNames == {<<"Wood">>, <<"Wood", ".", "0">>}
\* the draws of uuid4 distinguished
SuffixDraws == {h \in HexStrings : \A i, j \in DOMAIN h : h[i] = h[j]}

\* lines 834-857: the material n of the objects merged from full_path gets
\* the suffix of this import
ImportMaterials(full_path, n, hex) ==
    <<[name |-> n \o GenerateUniqueSuffix(hex), merged_as |-> n, suffix |-> hex,
       owner |-> full_path, refused |-> FALSE]>>

\* the materials the imports of max_files[1..upto] leave
RECURSIVE ImportedMaterials(_, _, _, _)
ImportedMaterials(max_files, names, hexes, upto) ==
    IF upto = 0 THEN <<>>
    ELSE ImportedMaterials(max_files, names, hexes, upto - 1)
            \o ImportMaterials(max_files[upto], names[upto], hexes[upto])

\* clean_up_material_names with one try block around the whole loop: the
\* first rename that raises ends it
CleanUpMaterialNamesStop(mats, refusing) ==
    [m \in DOMAIN mats |->
        IF m \in refusing /\ HasMark(mats[m].name)
        THEN [mats[m] EXCEPT !.refused = TRUE]
        ELSE IF \E k \in refusing : k < m /\ HasMark(mats[k].name)
        THEN mats[m]
        ELSE [mats[m] EXCEPT !.name = CleanName(@)]]
\* clean_up_material_names (lines 780-805) when "mat.name = original_name"
\* raises for the materials in refusing
CleanUpMaterialNamesBut(mats, refusing) ==
    [m \in DOMAIN mats |->
        IF m \in refusing /\ HasMark(mats[m].name)
        THEN [mats[m] EXCEPT !.refused = TRUE]
        ELSE [mats[m] EXCEPT !.name = CleanName(@)]]

\* rt.sceneMaterials after reload_scene of full_path: the materials of the
\* deleted objects are listed until the host drops them (dropped), and the
\* merge adds the file's material with a new suffix (lines 834-857); no
\* cleanup follows (lines 545-564)
ReloadMaterials(mats, full_path, n, hex, dropped, mergeOk) ==
    (IF dropped THEN SelectSeq(mats, LAMBDA m : m.owner # full_path) ELSE mats)
        \o (IF mergeOk THEN ImportMaterials(full_path, n, hex) ELSE <<>>)

\* merge_all_scenes with the materials (lines 702-775)
MergeAllMaterials(lists) ==
    /\ Ready
    /\ scene_list = <<>>
    /\ \E file_list \in lists, failAt \in 0..2, rev \in BOOLEAN,
          names \in [1..2 -> MergedNames], hexes \in [1..2 -> SuffixDraws],
          refusing \in SUBSET (1..2) :
         LET r == MergeAllScenes(State, file_list, rev, failAt)
             mats == ImportedMaterials(file_list, names, hexes,
                        IF failAt = 0 THEN Len(file_list) ELSE failAt - 1)
         IN  /\ failAt <= Len(file_list)
             /\ r.raised => refusing = {}
             /\ LeavesScene(r.s, IF r.raised THEN "merge_raise" ELSE "merge", "none")
             /\ merged' = file_list
             /\ sceneMaterials' = IF r.raised THEN mats
                                  ELSE CleanUpMaterialNamesBut(mats, refusing)

\* a tick that finds the active entry's file changed, answered "Reload"
TickReloadMaterials ==
    /\ Pumping
    /\ timerActive
    /\ pendingShots = 0
    /\ ExternalChangeSeen(State)
    /\ \E rev \in BOOLEAN, mergeOk \in BOOLEAN, n \in MergedNames,
          hex \in SuffixDraws, dropped \in BOOLEAN :
         /\ ~mergeOk => ~rev
         /\ LeavesScene(CheckModifications(State, "Reload", rev, mergeOk),
                        IF mergeOk THEN "tick_reload" ELSE "tick_reload_raise",
                        "none")
         /\ merged' = merged
         /\ sceneMaterials' = ReloadMaterials(sceneMaterials, ActiveFile, n, hex,
                                              dropped, mergeOk)

MatContents == {[f \in Files |-> TplPlain(DisplayNameOf(f))]}
InitMat == InitWith(MatContents)
NextMat ==
    \/ MergeAllMaterials(PollLists)
    \/ FireShot
    \/ TouchActive
    \/ TickReloadMaterials
SpecMat == InitMat /\ [][NextMat]_vars

\* C35: the cleanup that ends mergeAll is best-effort per material: when the
\* rename of one material fails, every other material is still named as the
\* part before ".Duplicate.", the first entry is active, and the single
\* shot that restarts the poller is pending and restarts it.
C35_CleanupBestEffort ==
    /\ [][lastOp'.op = "merge" =>
            /\ \A m \in DOMAIN sceneMaterials' :
                  IF sceneMaterials'[m].refused
                  THEN sceneMaterials'[m].name =
                          sceneMaterials'[m].merged_as
                             \o GenerateUniqueSuffix(sceneMaterials'[m].suffix)
                  ELSE /\ ~HasMark(sceneMaterials'[m].name)
                       /\ sceneMaterials'[m].name = sceneMaterials'[m].merged_as
            /\ Len(sceneMaterials') = Len(merged')
            /\ active_scene_item' = 1
            /\ scene_list'[1].path = merged'[1]
            /\ pendingShots' > pendingShots
            /\ ~timerActive']_vars
    /\ [][FireShot => timerActive']_vars

\* mergeAll has ended with the first material still suffixed, its rename
\* refused, and the second one cleaned
C35_Witness ==
    /\ lastOp.op = "merge"
    /\ Len(sceneMaterials) = 2
    /\ sceneMaterials[1].refused
    /\ HasMark(sceneMaterials[1].name)
    /\ ~sceneMaterials[2].refused
    /\ sceneMaterials[2].name = <<"Wood", ".", "0">>
    /\ active_scene_item = 1
    /\ pendingShots > 0


\* no material of the list mats whose cleanup was not refused is named with
\* ".Duplicate."
NoMarks(mats) == \A m \in DOMAIN mats : ~mats[m].refused => ~HasMark(mats[m].name)

\* C36: the suffix ".Duplicate.<hash>" is transient: mergeAll ends with no
\* scene material named with ".Duplicate.", and every later step, the
\* reloads included, ends in such a state again.
C36_SuffixTransient ==
    [][(lastOp'.op = "merge" \/ (scene_list # <<>> /\ NoMarks(sceneMaterials)))
          => NoMarks(sceneMaterials')]_vars

\* the active entry has been reloaded: its material carries the suffix of
\* the import while that of the other entry is clean
C36_Witness ==
    /\ lastOp.op = "tick_reload"
    /\ Len(sceneMaterials) = 2
    /\ sceneMaterials[1].owner = PathB
    /\ ~HasMark(sceneMaterials[1].name)
    /\ sceneMaterials[2].owner = PathA
    /\ ~sceneMaterials[2].refused
    /\ HasMark(sceneMaterials[2].name)
    /\ pendingShots = 0
    /\ timerActive


\* the switch of this step went through the answer "Save" of the prompt
SaveChosen == lastOp'.op = "switch" /\ lastOp'.save \in {"ok", "raised", "empty", "noroot"}
\* whether the root layer of each entry is on
RootsOn(L, list) ==
    [r \in DOMAIN list |->
        IF GetLayerFromName(L, <<list[r].display>>) = NoLayer THEN FALSE
        ELSE L[GetLayerFromName(L, <<list[r].display>>)].on]

\* C37: after "Save" at the prompt of a switch the target is active only if
\* the save of the active entry succeeded; after a save that failed the
\* active entry and the visibility of every root layer are as before and
\* the poller runs again.
C37_SwitchAfterSave ==
    [][SaveChosen =>
         IF lastOp'.save = "ok"
         THEN active_scene_item' # active_scene_item
         ELSE /\ active_scene_item' = active_scene_item
              /\ RootsOn(layers', scene_list') = RootsOn(layers, scene_list)
              /\ timerActive']_vars

\* a switch answered "Save" whose save raised: the entry is still active and
\* the poller is stopped with no single shot pending
C37_Witness ==
    /\ lastOp.op = "switch"
    /\ lastOp.save = "raised"
    /\ active_scene_item = 1
    /\ ~timerActive
    /\ pendingShots = 0
    /\ Len(scene_list) = 2


(***************************************************************************)
(* Edits made while a single shot is pending.                              *)
(***************************************************************************)
\* an edit of the scene in the host after a handler that scheduled a single
\* shot has returned and before the shot runs (lines 1182, 1280-1286 and
\* 1459-1468 schedule it 100 or 200 ms ahead)
EditBeforeShot ==
    /\ Idle
    /\ active_scene_item # 0
    /\ ~saveRequired
    /\ pendingShots > 0
    /\ Becomes([State EXCEPT !.saveRequired = TRUE], "edit_pending", "none")

NextEdit ==
    \/ FirstMerge(PollLists)
    \/ SwitchActive
    \/ SaveActive
    \/ EditBeforeShot
    \/ ToggleDetection
    \/ FireShot
    \/ TickOnChange
    \/ TouchActive
SpecEdit == Init /\ [][NextEdit]_vars

\* an edit has just been made while a single shot is pending, with
\* detection enabled
EditPending ==
    lastOp.op = "edit_pending" /\ pendingShots > 0 /\ ~disable_detection

\* C38: with detection enabled, the deferred force-clean does not lose the
\* host's dirty flag set by an edit the user made after the operation that
\* scheduled it had returned: the flag is still set when the callback has
\* run, so that a later tick shows the entry dirty and the next switch
\* prompts.
C38_EditSurvivesForceClean ==
    [][(EditPending /\ FireShot) => saveRequired']_vars

C38_Witness ==
    /\ EditPending
    /\ saveRequired
    /\ active_scene_item = 2
    /\ ~is_ui_dirty


\* the "Batch Complete" message is open
MessageOpen == batch.mode = "dialog"

\* C39: while a blocking prompt is open neither a tick of the poller nor a
\* single shot scheduled before runs: the flags of the entries, the last
\* known mtimes, the host's dirty flag and the poller are, when the prompt
\* is answered, as they were when it was raised.
C39_PromptBlocks ==
    [][(MessageOpen /\ MessageOpen') =>
          UNCHANGED <<scene_list, file_timestamps, saveRequired, is_ui_dirty,
                      timerActive, pendingShots, background_check_counter,
                      layers, objects>>]_vars

\* the message is open and the poller, stopped for the batch, runs again:
\* a single shot of the batch has run behind the message
C39_Witness ==
    /\ MessageOpen
    /\ timerActive
    /\ batch.saved > 0

====
